---- MODULE Spec2Model ----
(***************************************************************************)
(* A model of the crypto-agility layer of examples/agility.rs and of the   *)
(* labeled key-derivation helpers of src/kdf.rs.                           *)
(*                                                                         *)
(* Every fallible routine returns a value of one of three shapes:          *)
(*   [t |-> "Ok", v |-> ...]     the Ok(..) of a Result                    *)
(*   [t |-> "Err", e |-> ...]    the Err(..) of a Result                   *)
(*   [t |-> "Panic", msg |-> ..] the routine unwound through panic!/assert!*)
(* Routines whose calls matter for ordering also return the log of the     *)
(* calls they made (checks, lifts, the concrete setup routine, csprng).    *)
(***************************************************************************)
EXTENDS Integers, Sequences, FiniteSets, TLC

VARIABLES
  phase,           \* where main is: "idle", "gen1", "ready", "sent", "up", "done"
  call,            \* the last call made: its name, arguments, result and log
  rng,             \* number of draws made from the csprng
  sender_kp,       \* main's sender_keypair, once generated
  recip_kp,        \* main's recip_keypair, once generated
  sent,            \* the call of agile_setup_sender that succeeded
  sctx,            \* the sender's context (aead_ctx1)
  rctx,            \* the receiver's context (aead_ctx2)
  sealed           \* the last message sealed: plaintext, ciphertext, aad, tag

vars == <<phase, call, rng, sender_kp, recip_kp, sent, sctx, rctx, sealed>>

(***************************************************************************)
(* Bounds of the model.                                                    *)
(***************************************************************************)
\* Tags of caller-built values range over the KEM's own KexAlg and the next
\* NumOtherKex members of the KexAlg enum (cyclically).
NumOtherKex == 2
\* Wire ids 0..MaxId are looked up, besides the ids 0xFF and 0xFFFF.
MaxId == 40
\* Output lengths 0..MaxOut are expanded, besides the boundary lengths.
MaxOut == 2
\* Messages sealed or opened by one context.
MaxSeq == 2

(***************************************************************************)
(* Results and errors.                                                     *)
(***************************************************************************)
Ok(v) == [t |-> "Ok", v |-> v]
Err(e) == [t |-> "Err", e |-> e]
Panic(msg) == [t |-> "Panic", msg |-> msg]

IsOk(r) == r.t = "Ok"
IsErr(r) == r.t = "Err"
IsPanic(r) == r.t = "Panic"

AlgMismatch(a, b) == [k |-> "AlgMismatch", a |-> a, b |-> b]
UnknownAlgIdent(alg, id) == [k |-> "UnknownAlgIdent", alg |-> alg, id |-> id]
HpkeError(e) == [k |-> "HpkeError", e |-> e]

IsAlgMismatch(r) == IsErr(r) /\ r.e.k = "AlgMismatch"

\* `let v = ...;` followed by the rest of the routine, F
Bind(v, F(_)) == F(v)

(***************************************************************************)
(* The algorithm registry.                                                 *)
(***************************************************************************)
AeadAlg == {"AesGcm128", "AesGcm256", "ChaCha20Poly1305"}
KdfAlg == {"HkdfSha256", "HkdfSha384", "HkdfSha512"}
KexAlgSeq == <<"X25519", "X448", "DhP256", "DhP384", "DhP521">>
KexAlg == {KexAlgSeq[i] : i \in 1..Len(KexAlgSeq)}
KemAlg == {"X25519HkdfSha256", "X448HkdfSha512", "DhP256HkdfSha256",
           "DhP384HkdfSha384", "DhP521HkdfSha512"}

AeadAlg_name(a) == a
KdfAlg_name(a) == a
KemAlg_name(a) == a

KexAlg_name(a) ==
  CASE a = "X25519" -> "X25519"
    [] a = "X448" -> "X448"
    [] a = "DhP256" -> "P256"
    [] a = "DhP384" -> "P384"
    [] a = "DhP521" -> "P521"

AeadAlg_try_from_u16(id) ==
  CASE id = 1 -> Ok("AesGcm128")
    [] id = 2 -> Ok("AesGcm256")
    [] id = 3 -> Ok("ChaCha20Poly1305")
    [] OTHER -> Err(UnknownAlgIdent("AeadAlg", id))

AeadAlg_to_u16(a) ==
  CASE a = "AesGcm128" -> 1
    [] a = "AesGcm256" -> 2
    [] a = "ChaCha20Poly1305" -> 3

KdfAlg_try_from_u16(id) ==
  CASE id = 1 -> Ok("HkdfSha256")
    [] id = 2 -> Ok("HkdfSha384")
    [] id = 3 -> Ok("HkdfSha512")
    [] OTHER -> Err(UnknownAlgIdent("KdfAlg", id))

KdfAlg_to_u16(a) ==
  CASE a = "HkdfSha256" -> 1
    [] a = "HkdfSha384" -> 2
    [] a = "HkdfSha512" -> 3

KdfAlg_get_digest_len(a) ==
  CASE a = "HkdfSha256" -> 32
    [] a = "HkdfSha384" -> 48
    [] a = "HkdfSha512" -> 64

KexAlg_get_pubkey_len(a) ==
  CASE a = "X25519" -> 32
    [] a = "X448" -> 56
    [] a = "DhP256" -> 65
    [] a = "DhP384" -> 97
    [] a = "DhP521" -> 133

\* KemAlg::try_from_u16 with the arm of 0x21 repeating the variant of 0x20
KemAlg_try_from_u16_Slip(id) ==
  CASE id = 16 -> Ok("DhP256HkdfSha256")
    [] id = 17 -> Ok("DhP384HkdfSha384")
    [] id = 18 -> Ok("DhP521HkdfSha512")
    [] id = 32 -> Ok("X25519HkdfSha256")
    [] id = 33 -> Ok("X25519HkdfSha256")
    [] OTHER -> Err(UnknownAlgIdent("KemAlg", id))

KemAlg_try_from_u16(id) ==
  CASE id = 16 -> Ok("DhP256HkdfSha256")
    [] id = 17 -> Ok("DhP384HkdfSha384")
    [] id = 18 -> Ok("DhP521HkdfSha512")
    [] id = 32 -> Ok("X25519HkdfSha256")
    [] id = 33 -> Ok("X448HkdfSha512")
    [] OTHER -> Err(UnknownAlgIdent("KemAlg", id))

KemAlg_to_u16(a) ==
  CASE a = "DhP256HkdfSha256" -> 16
    [] a = "DhP384HkdfSha384" -> 17
    [] a = "DhP521HkdfSha512" -> 18
    [] a = "X25519HkdfSha256" -> 32
    [] a = "X448HkdfSha512" -> 33

\* KemAlg::kex_alg with the arm of DhP256HkdfSha256 repeating the arm above it
KemAlg_kex_alg_Slip(a) ==
  CASE a = "X25519HkdfSha256" -> "X25519"
    [] a = "X448HkdfSha512" -> "X448"
    [] a = "DhP256HkdfSha256" -> "X448"
    [] a = "DhP384HkdfSha384" -> "DhP384"
    [] a = "DhP521HkdfSha512" -> "DhP521"

KemAlg_kex_alg(a) ==
  CASE a = "X25519HkdfSha256" -> "X25519"
    [] a = "X448HkdfSha512" -> "X448"
    [] a = "DhP256HkdfSha256" -> "DhP256"
    [] a = "DhP384HkdfSha384" -> "DhP384"
    [] a = "DhP521HkdfSha512" -> "DhP521"

KemAlg_kdf_alg(a) ==
  CASE a = "X25519HkdfSha256" -> "HkdfSha256"
    [] a = "X448HkdfSha512" -> "HkdfSha512"
    [] a = "DhP256HkdfSha256" -> "HkdfSha256"
    [] a = "DhP384HkdfSha384" -> "HkdfSha384"
    [] a = "DhP521HkdfSha512" -> "HkdfSha512"

\* The three families' lookups behind one name, as the registry's callers see them.
Families == {"AeadAlg", "KdfAlg", "KemAlg"}

try_from_u16(fam, id) ==
  CASE fam = "AeadAlg" -> AeadAlg_try_from_u16(id)
    [] fam = "KdfAlg" -> KdfAlg_try_from_u16(id)
    [] fam = "KemAlg" -> KemAlg_try_from_u16(id)

to_u16(fam, a) ==
  CASE fam = "AeadAlg" -> AeadAlg_to_u16(a)
    [] fam = "KdfAlg" -> KdfAlg_to_u16(a)
    [] fam = "KemAlg" -> KemAlg_to_u16(a)

Members(fam) ==
  CASE fam = "AeadAlg" -> AeadAlg
    [] fam = "KdfAlg" -> KdfAlg
    [] fam = "KemAlg" -> KemAlg

(***************************************************************************)
(* The labeled key-derivation primitive (src/kdf.rs).  Byte strings are    *)
(* sequences of numbers in 0..255.                                         *)
(***************************************************************************)
\* b"RFCXXXX "
RFC_STR == <<82, 70, 67, 88, 88, 88, 88, 32>>

U16_MAX == 65535

\* `x as u16`: the low 16 bits
as_u16(x) == x % 65536

\* write_u16::<BigEndian>
write_u16_BigEndian(x) == <<x \div 256, x % 256>>

\* hkdf::Hkdf::expand: InvalidLength when more than 255 blocks of the digest
\* are asked for; the output is a function of the prk, the info and the length.
Hkdf_expand(kdf, prk, info, L) ==
  IF L > 255 * KdfAlg_get_digest_len(kdf)
    THEN Err("InvalidLength")
    ELSE Ok([prk |-> prk, info |-> info, len |-> L])

\* hkdf::Hkdf::extract
Hkdf_extract(kdf, salt, ikm) == [kdf |-> kdf, salt |-> salt, ikm |-> ikm]

static_zeros(kdf) == [i \in 1..KdfAlg_get_digest_len(kdf) |-> 0]

\* The calls a KDF routine made of the underlying HKDF, in order
ExtractEv(salt, ikm) == [op |-> "extract", salt |-> salt, ikm |-> ikm]
ExpandEv(info, L) == [op |-> "expand", info |-> info, len |-> L]

\* Each routine below returns [res, calls]: its result and the calls it made
extract_and_expand_trace(kdf, ikm, info, L) ==
  Bind(static_zeros(kdf), LAMBDA salt :
  Bind(Hkdf_extract(kdf, salt, ikm), LAMBDA hkdf_ctx :
    [res |-> Hkdf_expand(kdf, hkdf_ctx, info, L),
     calls |-> <<ExtractEv(salt, ikm), ExpandEv(info, L)>>]))

extract_and_expand(kdf, ikm, info, L) == extract_and_expand_trace(kdf, ikm, info, L).res

\* labeled_extract building the IKM as label, tag, ikm
labeled_extract_trace_LabelFirst(kdf, salt, label, ikm) ==
  Bind(label \o RFC_STR \o ikm, LAMBDA labeled_ikm :
    [res |-> Hkdf_extract(kdf, salt, labeled_ikm),
     calls |-> <<ExtractEv(salt, labeled_ikm)>>])

labeled_extract_trace(kdf, salt, label, ikm) ==
  Bind(RFC_STR \o label \o ikm, LAMBDA labeled_ikm :
    [res |-> Hkdf_extract(kdf, salt, labeled_ikm),
     calls |-> <<ExtractEv(salt, labeled_ikm)>>])

labeled_extract(kdf, salt, label, ikm) == labeled_extract_trace(kdf, salt, label, ikm).res

\* labeled_expand writing the length with the low byte first
labeled_expand_trace_LittleEndian(kdf, prk, label, info, L) ==
  IF ~(L <= U16_MAX)
    THEN [res |-> Panic("assertion failed: out.len() <= u16::MAX as usize"), calls |-> <<>>]
    ELSE Bind(<<as_u16(L) % 256, as_u16(L) \div 256>>, LAMBDA len_buf :
         Bind(len_buf \o RFC_STR \o label \o info, LAMBDA labeled_info :
           [res |-> Hkdf_expand(kdf, prk, labeled_info, L),
            calls |-> <<ExpandEv(labeled_info, L)>>]))

\* L is out.len()
labeled_expand_trace(kdf, prk, label, info, L) ==
  IF ~(L <= U16_MAX)
    THEN [res |-> Panic("assertion failed: out.len() <= u16::MAX as usize"), calls |-> <<>>]
    ELSE Bind(write_u16_BigEndian(as_u16(L)), LAMBDA len_buf :
         Bind(len_buf \o RFC_STR \o label \o info, LAMBDA labeled_info :
           [res |-> Hkdf_expand(kdf, prk, labeled_info, L),
            calls |-> <<ExpandEv(labeled_info, L)>>]))

labeled_expand(kdf, prk, label, info, L) == labeled_expand_trace(kdf, prk, label, info, L).res

(***************************************************************************)
(* Tagged values (examples/agility.rs).  A byte buffer is a record         *)
(* [len, body]: its length and its content, the content being the key it   *)
(* is the encoding of, <<kind, kex, k>>.                                   *)
(***************************************************************************)
Bytes(len, body) == [len |-> len, body |-> body]

AgilePublicKey(kex_alg, bytes) == [kex_alg |-> kex_alg, pubkey_bytes |-> bytes]
AgilePrivateKey(kex_alg, bytes) == [kex_alg |-> kex_alg, privkey_bytes |-> bytes]
AgileEncappedKey(kex_alg, bytes) == [kex_alg |-> kex_alg, encapped_key_bytes |-> bytes]
\* struct AgileKeypair(AgilePrivateKey, AgilePublicKey): kp[1] is .0, kp[2] is .1
AgileKeypair(sk, pk) == <<sk, pk>>
AgilePskBundle(kex_alg, kdf_alg, psk_bytes, psk_id) ==
  [kex_alg |-> kex_alg, kdf_alg |-> kdf_alg, psk_bytes |-> psk_bytes, psk_id |-> psk_id]

\* The variants of AgileOpModeSTy and AgileOpModeRTy
ModeBase == [ty |-> "Base"]
ModePsk(bundle) == [ty |-> "Psk", bundle |-> bundle]
ModeAuth(key) == [ty |-> "Auth", key |-> key]
ModeAuthPsk(key, bundle) == [ty |-> "AuthPsk", key |-> key, bundle |-> bundle]

AgileOpMode(kex_alg, kdf_alg, op_mode_ty) ==
  [kex_alg |-> kex_alg, kdf_alg |-> kdf_alg, op_mode_ty |-> op_mode_ty]

(***************************************************************************)
(* The key-exchange backends and the concrete types of the hpke crate.     *)
(***************************************************************************)
\* The concrete KeyExchange types, and Kem::Kex of the concrete KEM types
KexTypes == {"X25519", "DhP256"}

Kem_Kex(Kem) ==
  CASE Kem = "X25519HkdfSha256" -> "X25519"
    [] Kem = "DhP256HkdfSha256" -> "DhP256"

\* Marshalled sizes of the backends' keys
PublicKey_size(Kex) ==
  CASE Kex = "X25519" -> 32
    [] Kex = "DhP256" -> 65

PrivateKey_size(Kex) ==
  CASE Kex = "X25519" -> 32
    [] Kex = "DhP256" -> 32

\* Kex::PublicKey::unmarshal: any buffer of the right length is an X25519
\* point; a P-256 point must also be the encoding of a point of that curve.
PublicKey_unmarshal(Kex, bytes) ==
  IF bytes.len # PublicKey_size(Kex)
    THEN Err("InvalidEncoding")
    ELSE IF Kex = "DhP256" /\ ~(bytes.body[1] = "pk" /\ bytes.body[2] = "DhP256")
           THEN Err("InvalidEncoding")
           ELSE Ok([kex |-> Kex, body |-> bytes.body])

PrivateKey_unmarshal(Kex, bytes) ==
  IF bytes.len # PrivateKey_size(Kex)
    THEN Err("InvalidEncoding")
    ELSE Ok([kex |-> Kex, body |-> bytes.body])

EncappedKey_unmarshal(Kex, bytes) == PublicKey_unmarshal(Kex, bytes)

PublicKey_marshal(pk) == Bytes(PublicKey_size(pk.kex), pk.body)
PrivateKey_marshal(sk) == Bytes(PrivateKey_size(sk.kex), sk.body)
EncappedKey_marshal(ek) == PublicKey_marshal(ek)

\* Kex::gen_keypair: the keypair of the scalar the csprng's draw number k gives
gen_keypair(Kex, k) ==
  <<[kex |-> Kex, body |-> <<"sk", Kex, k>>], [kex |-> Kex, body |-> <<"pk", Kex, k>>]>>

\* Kex::sk_to_pk
sk_to_pk(sk) == [kex |-> sk.kex, body |-> <<"pk", sk.kex, sk.body[3]>>]

\* Kex::kex: the shared point of two scalars, the same whichever side computes
\* it; a buffer that is not one side's key of this group gives a point nobody
\* else computes.
kex(sk, pk) ==
  IF sk.body[1] = "sk" /\ pk.body[1] = "pk" /\ pk.body[2] = sk.kex
    THEN LET i == sk.body[3]
             j == pk.body[3]
         IN [kex |-> sk.kex, lo |-> IF i <= j THEN i ELSE j, hi |-> IF i <= j THEN j ELSE i]
    ELSE [kex |-> sk.kex, lo |-> 0 - sk.body[3], hi |-> 0 - pk.body[3]]

(***************************************************************************)
(* Log entries: the calls a routine made, in order.                        *)
(***************************************************************************)
\* a tag comparison or validate() call of agile_setup_*
CheckEv(what) == [op |-> "check", what |-> what]
\* try_lift of the value `what`, tagged (kex_tag, kdf_tag), to the concrete
\* types Kex and Kdf ("-" where the value has no such tag or type)
LiftEv(what, kex_tag, kdf_tag, Kex, Kdf) ==
  [op |-> "lift", what |-> what, kex_tag |-> kex_tag, kdf_tag |-> kdf_tag,
   Kex |-> Kex, Kdf |-> Kdf]
\* a call of the concrete setup_sender / setup_receiver
SetupEv(fn, A, Kdf, Kem) == [op |-> fn, A |-> A, Kdf |-> Kdf, Kem |-> Kem]
\* a draw from the csprng
RngEv == [op |-> "csprng"]
\* a call of the callback hpke_dispatch! was given, with the types of the branch
CallbackEv(fn, A, Kdf, Kem) == [op |-> "callback", fn |-> fn, A |-> A, Kdf |-> Kdf, Kem |-> Kem]

(***************************************************************************)
(* try_lift and validate of the tagged values.                             *)
(***************************************************************************)
WrapHpke(r) == IF IsErr(r) THEN Err(HpkeError(r.e)) ELSE r

\* AgilePublicKey::try_lift unwrapping the backend's result
AgilePublicKey_try_lift_Unwrap(Kex, pk) ==
  IF IsErr(PublicKey_unmarshal(Kex, pk.pubkey_bytes))
    THEN Panic("called Result::unwrap() on an Err value")
    ELSE PublicKey_unmarshal(Kex, pk.pubkey_bytes)

AgilePublicKey_try_lift(Kex, pk) == WrapHpke(PublicKey_unmarshal(Kex, pk.pubkey_bytes))

AgileEncappedKey_try_lift(Kex, ek) ==
  WrapHpke(EncappedKey_unmarshal(Kex, ek.encapped_key_bytes))

AgilePrivateKey_try_lift(Kex, sk) == WrapHpke(PrivateKey_unmarshal(Kex, sk.privkey_bytes))

\* Ok((self.0.try_lift::<Kex>()?, self.1.try_lift::<Kex>()?)); `what` names the
\* keypair in the log
AgileKeypair_try_lift(Kex, kp, what) ==
  Bind(AgilePrivateKey_try_lift(Kex, kp[1]), LAMBDA s :
  Bind(<<LiftEv(what \o ".0", kp[1].kex_alg, "-", Kex, "-")>>, LAMBDA l1 :
    IF ~IsOk(s) THEN [res |-> s, log |-> l1]
    ELSE
  Bind(AgilePublicKey_try_lift(Kex, kp[2]), LAMBDA p :
  Bind(l1 \o <<LiftEv(what \o ".1", kp[2].kex_alg, "-", Kex, "-")>>, LAMBDA l2 :
    IF ~IsOk(p) THEN [res |-> p, log |-> l2]
    ELSE [res |-> Ok(<<s.v, p.v>>), log |-> l2]))))

\* AgileKeypair::validate reporting the two tags in the wrong places
AgileKeypair_validate_Swapped(kp) ==
  IF kp[1].kex_alg # kp[2].kex_alg
    THEN Err(AlgMismatch(<<KexAlg_name(kp[2].kex_alg), "AgileKeypair::privkey">>,
                         <<KexAlg_name(kp[1].kex_alg), "AgileKeypair::pubkey">>))
    ELSE Ok(<<>>)

AgileKeypair_validate(kp) ==
  IF kp[1].kex_alg # kp[2].kex_alg
    THEN Err(AlgMismatch(<<KexAlg_name(kp[1].kex_alg), "AgileKeypair::privkey">>,
                         <<KexAlg_name(kp[2].kex_alg), "AgileKeypair::pubkey">>))
    ELSE Ok(<<>>)

\* Psk::<Kdf>::from_bytes never fails
AgilePskBundle_try_lift(Kdf, bundle) ==
  Ok([kdf |-> Kdf, psk |-> bundle.psk_bytes, psk_id |-> bundle.psk_id])

(***************************************************************************)
(* The agile operation modes.                                              *)
(***************************************************************************)
\* The bundle checks shared by the Psk and AuthPsk arms; `me` is
\* "AgileOpModeR" or "AgileOpModeS"
BundleKexMismatch(me, m, bundle) ==
  Err(AlgMismatch(<<KexAlg_name(m.kex_alg), me \o "::kex_alg">>,
                  <<KexAlg_name(bundle.kex_alg),
                    me \o "::op_mode_ty::AgilePskBundle::kex_alg">>))

BundleKdfMismatch(me, m, bundle) ==
  Err(AlgMismatch(<<KdfAlg_name(m.kdf_alg), me \o "::kdf_alg">>,
                  <<KdfAlg_name(bundle.kdf_alg),
                    me \o "::op_mode_ty::AgilePskBundle::kdf_alg">>))

PubKeyMismatch(m, pk) ==
  Err(AlgMismatch(<<KexAlg_name(m.kex_alg), "AgileOpModeR::kex_alg">>,
                  <<KexAlg_name(pk.kex_alg),
                    "AgileOpModeR::op_mode_ty::AgilePublicKey::kex_alg">>))

PrivKeyMismatch(m, sk) ==
  Err(AlgMismatch(<<KexAlg_name(m.kex_alg), "AgileOpModeS::kex_alg">>,
                  <<KexAlg_name(sk.kex_alg),
                    "AgileOpModeS::op_mode_ty::AgilePrivateKey::kex_alg">>))

\* AgileOpModeR::validate whose AuthPsk arm forgets the public key
AgileOpModeR_validate_NoPkCheck(m) ==
  LET ty == m.op_mode_ty IN
  CASE ty.ty = "Base" -> Ok(<<>>)
    [] ty.ty = "Psk" ->
         IF ty.bundle.kex_alg # m.kex_alg THEN BundleKexMismatch("AgileOpModeR", m, ty.bundle)
         ELSE IF ty.bundle.kdf_alg # m.kdf_alg
                THEN BundleKdfMismatch("AgileOpModeR", m, ty.bundle)
         ELSE Ok(<<>>)
    [] ty.ty = "Auth" ->
         IF ty.key.kex_alg # m.kex_alg THEN PubKeyMismatch(m, ty.key)
         ELSE Ok(<<>>)
    [] ty.ty = "AuthPsk" ->
         IF ty.bundle.kex_alg # m.kex_alg THEN BundleKexMismatch("AgileOpModeR", m, ty.bundle)
         ELSE IF ty.bundle.kdf_alg # m.kdf_alg
                THEN BundleKdfMismatch("AgileOpModeR", m, ty.bundle)
         ELSE Ok(<<>>)

AgileOpModeR_validate(m) ==
  LET ty == m.op_mode_ty IN
  CASE ty.ty = "Base" -> Ok(<<>>)
    [] ty.ty = "Psk" ->
         IF ty.bundle.kex_alg # m.kex_alg THEN BundleKexMismatch("AgileOpModeR", m, ty.bundle)
         ELSE IF ty.bundle.kdf_alg # m.kdf_alg
                THEN BundleKdfMismatch("AgileOpModeR", m, ty.bundle)
         ELSE Ok(<<>>)
    [] ty.ty = "Auth" ->
         IF ty.key.kex_alg # m.kex_alg THEN PubKeyMismatch(m, ty.key)
         ELSE Ok(<<>>)
    [] ty.ty = "AuthPsk" ->
         IF ty.bundle.kex_alg # m.kex_alg THEN BundleKexMismatch("AgileOpModeR", m, ty.bundle)
         ELSE IF ty.bundle.kdf_alg # m.kdf_alg
                THEN BundleKdfMismatch("AgileOpModeR", m, ty.bundle)
         ELSE IF ty.key.kex_alg # m.kex_alg THEN PubKeyMismatch(m, ty.key)
         ELSE Ok(<<>>)

\* AgileOpModeS::validate whose AuthPsk arm compares the private key before
\* the bundle
AgileOpModeS_validate_KeyFirst(m) ==
  LET ty == m.op_mode_ty IN
  CASE ty.ty = "Base" -> Ok(<<>>)
    [] ty.ty = "Psk" ->
         IF ty.bundle.kex_alg # m.kex_alg THEN BundleKexMismatch("AgileOpModeS", m, ty.bundle)
         ELSE IF ty.bundle.kdf_alg # m.kdf_alg
                THEN BundleKdfMismatch("AgileOpModeS", m, ty.bundle)
         ELSE Ok(<<>>)
    [] ty.ty = "Auth" ->
         Bind(AgileKeypair_validate(ty.key), LAMBDA kv :
           IF ~IsOk(kv) THEN kv
           ELSE IF ty.key[1].kex_alg # m.kex_alg THEN PrivKeyMismatch(m, ty.key[1])
           ELSE Ok(<<>>))
    [] ty.ty = "AuthPsk" ->
         Bind(AgileKeypair_validate(ty.key), LAMBDA kv :
           IF ~IsOk(kv) THEN kv
           ELSE IF ty.key[1].kex_alg # m.kex_alg THEN PrivKeyMismatch(m, ty.key[1])
           ELSE IF ty.bundle.kex_alg # m.kex_alg
                  THEN BundleKexMismatch("AgileOpModeS", m, ty.bundle)
           ELSE IF ty.bundle.kdf_alg # m.kdf_alg
                  THEN BundleKdfMismatch("AgileOpModeS", m, ty.bundle)
           ELSE Ok(<<>>))

AgileOpModeS_validate(m) ==
  LET ty == m.op_mode_ty IN
  CASE ty.ty = "Base" -> Ok(<<>>)
    [] ty.ty = "Psk" ->
         IF ty.bundle.kex_alg # m.kex_alg THEN BundleKexMismatch("AgileOpModeS", m, ty.bundle)
         ELSE IF ty.bundle.kdf_alg # m.kdf_alg
                THEN BundleKdfMismatch("AgileOpModeS", m, ty.bundle)
         ELSE Ok(<<>>)
    [] ty.ty = "Auth" ->
         Bind(AgileKeypair_validate(ty.key), LAMBDA kv :
           IF ~IsOk(kv) THEN kv
           ELSE IF ty.key[1].kex_alg # m.kex_alg THEN PrivKeyMismatch(m, ty.key[1])
           ELSE Ok(<<>>))
    [] ty.ty = "AuthPsk" ->
         Bind(AgileKeypair_validate(ty.key), LAMBDA kv :
           IF ~IsOk(kv) THEN kv
           ELSE IF ty.bundle.kex_alg # m.kex_alg
                  THEN BundleKexMismatch("AgileOpModeS", m, ty.bundle)
           ELSE IF ty.bundle.kdf_alg # m.kdf_alg
                  THEN BundleKdfMismatch("AgileOpModeS", m, ty.bundle)
           ELSE IF ty.key[1].kex_alg # m.kex_alg THEN PrivKeyMismatch(m, ty.key[1])
           ELSE Ok(<<>>))

\* the lift of a mode's bundle, with its log entry
LiftBundle(Kex, Kdf, bundle) ==
  [res |-> AgilePskBundle_try_lift(Kdf, bundle),
   log |-> <<LiftEv("mode.bundle", bundle.kex_alg, bundle.kdf_alg, Kex, Kdf)>>]

\* the lift of a receiver mode's public key, with its log entry
LiftModePk(Kex, pk) ==
  [res |-> AgilePublicKey_try_lift(Kex, pk),
   log |-> <<LiftEv("mode.pk", pk.kex_alg, "-", Kex, "-")>>]

\* The rest of try_lift once the key material k is lifted, shared by both modes
LiftedAuth(k) ==
  IF ~IsOk(k.res) THEN k
  ELSE [res |-> Ok([ty |-> "Auth", key |-> k.res.v]), log |-> k.log]

LiftedAuthPsk(Kex, Kdf, k, bundle) ==
  IF ~IsOk(k.res) THEN k
  ELSE Bind(LiftBundle(Kex, Kdf, bundle), LAMBDA b :
         IF ~IsOk(b.res) THEN [res |-> b.res, log |-> k.log \o b.log]
         ELSE [res |-> Ok([ty |-> "AuthPsk", key |-> k.res.v, bundle |-> b.res.v]),
               log |-> k.log \o b.log])

LiftedPsk(b) ==
  IF ~IsOk(b.res) THEN b
  ELSE [res |-> Ok([ty |-> "Psk", bundle |-> b.res.v]), log |-> b.log]

\* The concrete OpModeR / OpModeS: [ty, key, bundle] with the fields of the variant
AgileOpModeR_try_lift(Kex, Kdf, m) ==
  LET ty == m.op_mode_ty IN
  CASE ty.ty = "Base" -> [res |-> Ok([ty |-> "Base"]), log |-> <<>>]
    [] ty.ty = "Psk" -> LiftedPsk(LiftBundle(Kex, Kdf, ty.bundle))
    [] ty.ty = "Auth" -> LiftedAuth(LiftModePk(Kex, ty.key))
    [] ty.ty = "AuthPsk" -> LiftedAuthPsk(Kex, Kdf, LiftModePk(Kex, ty.key), ty.bundle)

AgileOpModeS_try_lift(Kex, Kdf, m) ==
  LET ty == m.op_mode_ty IN
  CASE ty.ty = "Base" -> [res |-> Ok([ty |-> "Base"]), log |-> <<>>]
    [] ty.ty = "Psk" -> LiftedPsk(LiftBundle(Kex, Kdf, ty.bundle))
    [] ty.ty = "Auth" -> LiftedAuth(AgileKeypair_try_lift(Kex, ty.key, "mode.keypair"))
    [] ty.ty = "AuthPsk" ->
         LiftedAuthPsk(Kex, Kdf, AgileKeypair_try_lift(Kex, ty.key, "mode.keypair"),
                       ty.bundle)

(***************************************************************************)
(* The concrete setup routines and encryption context of the hpke crate.   *)
(***************************************************************************)
HasKey(mode) == mode.ty \in {"Auth", "AuthPsk"}
HasBundle(mode) == mode.ty \in {"Psk", "AuthPsk"}

\* The key schedule: everything the two sides must agree on to derive one key
KeySchedule(A, Kdf, Kem, mode, zz, kem_context, info) ==
  [A |-> A, Kdf |-> Kdf, Kem |-> Kem, mode |-> mode.ty, zz |-> zz,
   kem_context |-> kem_context,
   psk |-> IF HasBundle(mode) THEN <<mode.bundle.psk, mode.bundle.psk_id>> ELSE <<>>,
   info |-> info]

AeadCtx(A, Kdf, key) == [A |-> A, Kdf |-> Kdf, key |-> key, seq |-> 0]

\* setup_sender::<A, Kdf, Kem, R>(&mode, &pk_recip, info, csprng): one draw of
\* the csprng makes the ephemeral keypair; mode.key is the sender's (sk, pk)
setup_sender(A, Kdf, Kem, mode, pk_recip, info, draw) ==
  LET eph == gen_keypair(Kem_Kex(Kem), draw)
      zz == <<kex(eph[1], pk_recip)>>
              \o (IF HasKey(mode) THEN <<kex(mode.key[1], pk_recip)>> ELSE <<>>)
      kem_context == <<eph[2].body, pk_recip.body>>
                       \o (IF HasKey(mode) THEN <<mode.key[2].body>> ELSE <<>>)
  IN Ok(<<eph[2], AeadCtx(A, Kdf, KeySchedule(A, Kdf, Kem, mode, zz, kem_context, info))>>)

\* setup_receiver::<A, Kdf, Kem>(&mode, &sk_recip, &encapped_key, info);
\* mode.key is the sender's public key
setup_receiver(A, Kdf, Kem, mode, sk_recip, encapped_key, info) ==
  LET zz == <<kex(sk_recip, encapped_key)>>
              \o (IF HasKey(mode) THEN <<kex(sk_recip, mode.key)>> ELSE <<>>)
      kem_context == <<encapped_key.body, sk_to_pk(sk_recip).body>>
                       \o (IF HasKey(mode) THEN <<mode.key.body>> ELSE <<>>)
  IN Ok(AeadCtx(A, Kdf, KeySchedule(A, Kdf, Kem, mode, zz, kem_context, info)))

\* AeadTag::<A>::marshal / unmarshal: 16 bytes for the three AEADs
AeadTag_size == 16
AeadTag_marshal(tag) == Bytes(AeadTag_size, tag)
AeadTag_unmarshal(bytes) ==
  IF bytes.len # AeadTag_size THEN Err("InvalidEncoding") ELSE Ok(bytes.body)

\* AeadCtx::seal: encrypts in place under the key and the sequence number,
\* returns the tag and advances the sequence number
AeadCtx_seal(ctx, plaintext, aad) ==
  LET ct == [key |-> ctx.key, seq |-> ctx.seq, pt |-> plaintext]
  IN [res |-> Ok([key |-> ctx.key, seq |-> ctx.seq, aad |-> aad, ct |-> ct]),
      buf |-> ct,
      ctx |-> [ctx EXCEPT !.seq = @ + 1]]

\* AeadCtx::open: decrypts in place when the tag authenticates the ciphertext
\* and aad under the key and the sequence number, and advances the sequence
\* number; otherwise fails and leaves the context and the buffer alone
AeadCtx_open(ctx, ciphertext, aad, tag) ==
  IF tag = [key |-> ctx.key, seq |-> ctx.seq, aad |-> aad, ct |-> ciphertext]
    THEN [res |-> Ok(<<>>), buf |-> ciphertext.pt, ctx |-> [ctx EXCEPT !.seq = @ + 1]]
    ELSE [res |-> Err("InvalidTag"), buf |-> ciphertext, ctx |-> ctx]

(***************************************************************************)
(* impl AgileAeadCtx for AeadCtx                                           *)
(***************************************************************************)
\* fwd lists the calls made on the concrete context
ForwardEv(fn, ctx) == [op |-> fn, seq |-> ctx.seq]

AgileAeadCtx_seal(ctx, plaintext, aad) ==
  Bind(AeadCtx_seal(ctx, plaintext, aad), LAMBDA r :
    [res |-> IF IsOk(r.res) THEN Ok(AeadTag_marshal(r.res.v)) ELSE r.res,
     buf |-> r.buf, ctx |-> r.ctx, fwd |-> <<ForwardEv("AeadCtx::seal", ctx)>>])

\* the same with the tag unmarshalled leniently: its bytes reach the concrete
\* open whatever their length
AgileAeadCtx_open_Lenient(ctx, ciphertext, aad, tag_bytes) ==
  Bind(AeadCtx_open(ctx, ciphertext, aad, tag_bytes.body), LAMBDA r :
    [res |-> WrapHpke(r.res), buf |-> r.buf, ctx |-> r.ctx,
     fwd |-> <<ForwardEv("AeadCtx::open", ctx)>>])

AgileAeadCtx_open(ctx, ciphertext, aad, tag_bytes) ==
  Bind(AeadTag_unmarshal(tag_bytes), LAMBDA tag :
    IF ~IsOk(tag)
      THEN [res |-> WrapHpke(tag), buf |-> ciphertext, ctx |-> ctx, fwd |-> <<>>]
      ELSE Bind(AeadCtx_open(ctx, ciphertext, aad, tag.v), LAMBDA r :
             [res |-> WrapHpke(r.res), buf |-> r.buf, ctx |-> r.ctx,
              fwd |-> <<ForwardEv("AeadCtx::open", ctx)>>]))

(***************************************************************************)
(* The dispatch engine.                                                    *)
(***************************************************************************)
\* The type lists given to hpke_dispatch! by agile_setup_sender and
\* agile_setup_receiver
DispatchAeads == <<"ChaCha20Poly1305", "AesGcm128", "AesGcm256">>
DispatchKdfs == <<"HkdfSha256", "HkdfSha384", "HkdfSha512">>
DispatchKems == <<"X25519HkdfSha256", "DhP256HkdfSha256">>

\* The @base branches hpke_dispatch! expands to, in the order of expansion:
\* for every AEAD, for every KDF, for every KEM
DispatchBranches(aeads, kdfs, kems) ==
  [n \in 1..(Len(aeads) * Len(kdfs) * Len(kems)) |->
     [A |-> aeads[((n - 1) \div (Len(kdfs) * Len(kems))) + 1],
      Kdf |-> kdfs[(((n - 1) \div Len(kems)) % Len(kdfs)) + 1],
      Kem |-> kems[((n - 1) % Len(kems)) + 1]]]

\* a pattern that leaves the KDF out
BranchMatches_NoKdf(b, to_match) ==
  to_match[1] = b.A /\ to_match[2] = b.Kem

\* if let (AeadAlg::$aead_ty, KemAlg::$kem_ty, KdfAlg::$kdf_ty) = $to_match
BranchMatches(b, to_match) ==
  to_match[1] = b.A /\ to_match[2] = b.Kem /\ to_match[3] = b.Kdf

\* The branches of the expansion whose pattern matches, in order: the callback
\* runs once for each of them
hpke_dispatch(to_match, aeads, kdfs, kems) ==
  SelectSeq(DispatchBranches(aeads, kdfs, kems), LAMBDA b : BranchMatches(b, to_match))

\* do_setup_sender tagging the encapsulated key with the algorithm of the
\* first KEM of the dispatch list
do_setup_sender_FixedTag(A, Kdf, Kem, mode, pk_recip, info, rng0) ==
  Bind("X25519", LAMBDA kex_alg :
  Bind(AgileOpModeS_try_lift(Kem_Kex(Kem), Kdf, mode), LAMBDA m :
    IF ~IsOk(m.res) THEN [res |-> m.res, log |-> m.log, rng |-> rng0]
    ELSE
  Bind(AgilePublicKey_try_lift(Kem_Kex(Kem), pk_recip), LAMBDA p :
  Bind(m.log \o <<LiftEv("pk_recip", pk_recip.kex_alg, "-", Kem_Kex(Kem), "-")>>, LAMBDA l2 :
    IF ~IsOk(p) THEN [res |-> p, log |-> l2, rng |-> rng0]
    ELSE
  Bind(WrapHpke(setup_sender(A, Kdf, Kem, m.res.v, p.v, info, rng0 + 1)), LAMBDA s :
  Bind(l2 \o <<SetupEv("setup_sender", A, Kdf, Kem), RngEv>>, LAMBDA l3 :
    IF ~IsOk(s) THEN [res |-> s, log |-> l3, rng |-> rng0 + 1]
    ELSE [res |-> Ok(<<AgileEncappedKey(kex_alg, EncappedKey_marshal(s.v[1])), s.v[2]>>),
          log |-> l3, rng |-> rng0 + 1]))))))

\* do_setup_sender returning the recipient's public key bytes as the
\* encapsulated key
do_setup_sender_WrongEncapped(A, Kdf, Kem, mode, pk_recip, info, rng0) ==
  Bind(mode.kex_alg, LAMBDA kex_alg :
  Bind(AgileOpModeS_try_lift(Kem_Kex(Kem), Kdf, mode), LAMBDA m :
    IF ~IsOk(m.res) THEN [res |-> m.res, log |-> m.log, rng |-> rng0]
    ELSE
  Bind(AgilePublicKey_try_lift(Kem_Kex(Kem), pk_recip), LAMBDA p :
  Bind(m.log \o <<LiftEv("pk_recip", pk_recip.kex_alg, "-", Kem_Kex(Kem), "-")>>, LAMBDA l2 :
    IF ~IsOk(p) THEN [res |-> p, log |-> l2, rng |-> rng0]
    ELSE
  Bind(WrapHpke(setup_sender(A, Kdf, Kem, m.res.v, p.v, info, rng0 + 1)), LAMBDA s :
  Bind(l2 \o <<SetupEv("setup_sender", A, Kdf, Kem), RngEv>>, LAMBDA l3 :
    IF ~IsOk(s) THEN [res |-> s, log |-> l3, rng |-> rng0 + 1]
    ELSE [res |-> Ok(<<AgileEncappedKey(kex_alg, pk_recip.pubkey_bytes), s.v[2]>>),
          log |-> l3, rng |-> rng0 + 1]))))))

\* Every routine below returns [res, log, rng]: its result, the calls it made
\* and the number of draws made from the csprng so far.
do_setup_sender(A, Kdf, Kem, mode, pk_recip, info, rng0) ==
  Bind(mode.kex_alg, LAMBDA kex_alg :
  Bind(AgileOpModeS_try_lift(Kem_Kex(Kem), Kdf, mode), LAMBDA m :
    IF ~IsOk(m.res) THEN [res |-> m.res, log |-> m.log, rng |-> rng0]
    ELSE
  Bind(AgilePublicKey_try_lift(Kem_Kex(Kem), pk_recip), LAMBDA p :
  Bind(m.log \o <<LiftEv("pk_recip", pk_recip.kex_alg, "-", Kem_Kex(Kem), "-")>>, LAMBDA l2 :
    IF ~IsOk(p) THEN [res |-> p, log |-> l2, rng |-> rng0]
    ELSE
  Bind(WrapHpke(setup_sender(A, Kdf, Kem, m.res.v, p.v, info, rng0 + 1)), LAMBDA s :
  Bind(l2 \o <<SetupEv("setup_sender", A, Kdf, Kem), RngEv>>, LAMBDA l3 :
    IF ~IsOk(s) THEN [res |-> s, log |-> l3, rng |-> rng0 + 1]
    ELSE [res |-> Ok(<<AgileEncappedKey(kex_alg, EncappedKey_marshal(s.v[1])), s.v[2]>>),
          log |-> l3, rng |-> rng0 + 1]))))))

do_setup_receiver(A, Kdf, Kem, mode, recip_keypair, encapped_key, info, rng0) ==
  Bind(AgileOpModeR_try_lift(Kem_Kex(Kem), Kdf, mode), LAMBDA m :
    IF ~IsOk(m.res) THEN [res |-> m.res, log |-> m.log, rng |-> rng0]
    ELSE
  Bind(AgileKeypair_try_lift(Kem_Kex(Kem), recip_keypair, "recip_keypair"), LAMBDA k :
  Bind(m.log \o k.log, LAMBDA l2 :
    IF ~IsOk(k.res) THEN [res |-> k.res, log |-> l2, rng |-> rng0]
    ELSE
  Bind(AgileEncappedKey_try_lift(Kem_Kex(Kem), encapped_key), LAMBDA e :
  Bind(l2 \o <<LiftEv("encapped_key", encapped_key.kex_alg, "-", Kem_Kex(Kem), "-")>>,
       LAMBDA l3 :
    IF ~IsOk(e) THEN [res |-> e, log |-> l3, rng |-> rng0]
    ELSE [res |-> WrapHpke(setup_receiver(A, Kdf, Kem, m.res.v, k.res.v[1], e.v, info)),
          log |-> l3 \o <<SetupEv("setup_receiver", A, Kdf, Kem)>>,
          rng |-> rng0])))))

\* One callback call for each matching branch from the i-th on; acc is
\* [some, res, log, rng]: `res` of the code (None until a branch has matched)
RECURSIVE run_sender_branches(_, _, _, _, _, _)
run_sender_branches(branches, i, mode, pk_recip, info, acc) ==
  IF i > Len(branches) THEN acc
  ELSE Bind(do_setup_sender(branches[i].A, branches[i].Kdf, branches[i].Kem,
                            mode, pk_recip, info, acc.rng), LAMBDA r :
         run_sender_branches(branches, i + 1, mode, pk_recip, info,
           [some |-> TRUE, res |-> r.res, rng |-> r.rng,
            log |-> acc.log \o <<CallbackEv("do_setup_sender", branches[i].A,
                                            branches[i].Kdf, branches[i].Kem)>> \o r.log]))

RECURSIVE run_receiver_branches(_, _, _, _, _, _, _)
run_receiver_branches(branches, i, mode, keypair, encapped_key, info, acc) ==
  IF i > Len(branches) THEN acc
  ELSE Bind(do_setup_receiver(branches[i].A, branches[i].Kdf, branches[i].Kem,
                              mode, keypair, encapped_key, info, acc.rng), LAMBDA r :
         run_receiver_branches(branches, i + 1, mode, keypair, encapped_key, info,
           [some |-> TRUE, res |-> r.res, rng |-> r.rng,
            log |-> acc.log \o <<CallbackEv("do_setup_receiver", branches[i].A,
                                            branches[i].Kdf, branches[i].Kem)>> \o r.log]))

NotImplemented(kem_alg) == Panic("DHKEM(" \o KemAlg_name(kem_alg) \o ") isn't impelmented yet!")

\* if res.is_none() { panic!(..) } res.unwrap()
Dispatched(d, kem_alg) ==
  IF ~d.some
    THEN [res |-> NotImplemented(kem_alg), log |-> d.log, rng |-> d.rng]
    ELSE [res |-> d.res, log |-> d.log, rng |-> d.rng]

\* agile_setup_sender comparing pk_recip's tag only after the dispatch
agile_setup_sender_LateCheck(aead_alg, kem_alg, mode, pk_recip, info, rng0) ==
  LET l1 == <<CheckEv("mode.validate")>>
      l2 == l1 \o <<CheckEv("kem_alg.kex_alg() != mode.kex_alg")>>
      to_match == <<aead_alg, kem_alg, mode.kdf_alg>>
  IN
  Bind(AgileOpModeS_validate(mode), LAMBDA v :
  IF ~IsOk(v) THEN [res |-> v, log |-> l1, rng |-> rng0]
  ELSE IF KemAlg_kex_alg(kem_alg) # mode.kex_alg
    THEN [res |-> Err(AlgMismatch(<<KexAlg_name(KemAlg_kex_alg(kem_alg)), "kem_alg::kex_alg">>,
                                  <<KexAlg_name(mode.kex_alg), "mode::kex_alg">>)),
          log |-> l2, rng |-> rng0]
  ELSE Bind(run_sender_branches(
              hpke_dispatch(to_match, DispatchAeads, DispatchKdfs, DispatchKems),
              1, mode, pk_recip, info,
              [some |-> FALSE, res |-> <<>>, log |-> l2, rng |-> rng0]), LAMBDA d :
       IF mode.kex_alg # pk_recip.kex_alg
         THEN [res |-> Err(AlgMismatch(<<KexAlg_name(mode.kex_alg), "mode::kex_alg">>,
                                       <<KexAlg_name(pk_recip.kex_alg), "pk_recip::kex_alg">>)),
               log |-> d.log \o <<CheckEv("mode.kex_alg != pk_recip.kex_alg")>>,
               rng |-> d.rng]
         ELSE Dispatched(d, kem_alg)))

agile_setup_sender(aead_alg, kem_alg, mode, pk_recip, info, rng0) ==
  LET l1 == <<CheckEv("mode.validate")>>
      l2 == l1 \o <<CheckEv("mode.kex_alg != pk_recip.kex_alg")>>
      l3 == l2 \o <<CheckEv("kem_alg.kex_alg() != mode.kex_alg")>>
      l4 == l3 \o <<CheckEv("pk_recip.kex_alg != mode.kex_alg")>>
      to_match == <<aead_alg, kem_alg, mode.kdf_alg>>
  IN
  Bind(AgileOpModeS_validate(mode), LAMBDA v :
  IF ~IsOk(v) THEN [res |-> v, log |-> l1, rng |-> rng0]
  ELSE IF mode.kex_alg # pk_recip.kex_alg
    THEN [res |-> Err(AlgMismatch(<<KexAlg_name(mode.kex_alg), "mode::kex_alg">>,
                                  <<KexAlg_name(pk_recip.kex_alg), "pk_recip::kex_alg">>)),
          log |-> l2, rng |-> rng0]
  ELSE IF KemAlg_kex_alg(kem_alg) # mode.kex_alg
    THEN [res |-> Err(AlgMismatch(<<KexAlg_name(KemAlg_kex_alg(kem_alg)), "kem_alg::kex_alg">>,
                                  <<KexAlg_name(mode.kex_alg), "mode::kex_alg">>)),
          log |-> l3, rng |-> rng0]
  ELSE IF pk_recip.kex_alg # mode.kex_alg
    THEN [res |-> Err(AlgMismatch(<<KexAlg_name(pk_recip.kex_alg), "pk_recip::kex_alg">>,
                                  <<KexAlg_name(mode.kex_alg), "mode::kex_alg">>)),
          log |-> l4, rng |-> rng0]
  ELSE Dispatched(
         run_sender_branches(
           hpke_dispatch(to_match, DispatchAeads, DispatchKdfs, DispatchKems),
           1, mode, pk_recip, info,
           [some |-> FALSE, res |-> <<>>, log |-> l4, rng |-> rng0]),
         kem_alg))

\* agile_setup_receiver validating the mode before the recipient's keypair
agile_setup_receiver_ModeFirst(aead_alg, kem_alg, mode, keypair, encapped_key, info, rng0) ==
  LET l1 == <<CheckEv("mode.validate")>>
      l2 == l1 \o <<CheckEv("recip_keypair.validate")>>
      l3 == l2 \o <<CheckEv("mode.kex_alg != recip_keypair.0.kex_alg")>>
      l4 == l3 \o <<CheckEv("kem_alg.kex_alg() != mode.kex_alg")>>
      l5 == l4 \o <<CheckEv("recip_keypair.0.kex_alg != encapped_key.kex_alg")>>
      to_match == <<aead_alg, kem_alg, mode.kdf_alg>>
  IN
  Bind(AgileOpModeR_validate(mode), LAMBDA v :
  IF ~IsOk(v) THEN [res |-> v, log |-> l1, rng |-> rng0]
  ELSE
  Bind(AgileKeypair_validate(keypair), LAMBDA kv :
  IF ~IsOk(kv) THEN [res |-> kv, log |-> l2, rng |-> rng0]
  ELSE IF mode.kex_alg # keypair[1].kex_alg
    THEN [res |-> Err(AlgMismatch(<<KexAlg_name(mode.kex_alg), "mode::kex_alg">>,
                                  <<KexAlg_name(keypair[1].kex_alg),
                                    "recip_keypair::kex_alg">>)),
          log |-> l3, rng |-> rng0]
  ELSE IF KemAlg_kex_alg(kem_alg) # mode.kex_alg
    THEN [res |-> Err(AlgMismatch(<<KexAlg_name(KemAlg_kex_alg(kem_alg)), "kem_alg::kex_alg">>,
                                  <<KexAlg_name(mode.kex_alg), "mode::kex_alg">>)),
          log |-> l4, rng |-> rng0]
  ELSE IF keypair[1].kex_alg # encapped_key.kex_alg
    THEN [res |-> Err(AlgMismatch(<<KexAlg_name(keypair[1].kex_alg), "recip_keypair::kex_alg">>,
                                  <<KexAlg_name(encapped_key.kex_alg),
                                    "encapped_key::kex_alg">>)),
          log |-> l5, rng |-> rng0]
  ELSE Dispatched(
         run_receiver_branches(
           hpke_dispatch(to_match, DispatchAeads, DispatchKdfs, DispatchKems),
           1, mode, keypair, encapped_key, info,
           [some |-> FALSE, res |-> <<>>, log |-> l5, rng |-> rng0]),
         kem_alg)))

agile_setup_receiver(aead_alg, kem_alg, mode, keypair, encapped_key, info, rng0) ==
  LET l1 == <<CheckEv("recip_keypair.validate")>>
      l2 == l1 \o <<CheckEv("mode.validate")>>
      l3 == l2 \o <<CheckEv("mode.kex_alg != recip_keypair.0.kex_alg")>>
      l4 == l3 \o <<CheckEv("kem_alg.kex_alg() != mode.kex_alg")>>
      l5 == l4 \o <<CheckEv("recip_keypair.0.kex_alg != encapped_key.kex_alg")>>
      to_match == <<aead_alg, kem_alg, mode.kdf_alg>>
  IN
  Bind(AgileKeypair_validate(keypair), LAMBDA kv :
  IF ~IsOk(kv) THEN [res |-> kv, log |-> l1, rng |-> rng0]
  ELSE
  Bind(AgileOpModeR_validate(mode), LAMBDA v :
  IF ~IsOk(v) THEN [res |-> v, log |-> l2, rng |-> rng0]
  ELSE IF mode.kex_alg # keypair[1].kex_alg
    THEN [res |-> Err(AlgMismatch(<<KexAlg_name(mode.kex_alg), "mode::kex_alg">>,
                                  <<KexAlg_name(keypair[1].kex_alg),
                                    "recip_keypair::kex_alg">>)),
          log |-> l3, rng |-> rng0]
  ELSE IF KemAlg_kex_alg(kem_alg) # mode.kex_alg
    THEN [res |-> Err(AlgMismatch(<<KexAlg_name(KemAlg_kex_alg(kem_alg)), "kem_alg::kex_alg">>,
                                  <<KexAlg_name(mode.kex_alg), "mode::kex_alg">>)),
          log |-> l4, rng |-> rng0]
  ELSE IF keypair[1].kex_alg # encapped_key.kex_alg
    THEN [res |-> Err(AlgMismatch(<<KexAlg_name(keypair[1].kex_alg), "recip_keypair::kex_alg">>,
                                  <<KexAlg_name(encapped_key.kex_alg),
                                    "encapped_key::kex_alg">>)),
          log |-> l5, rng |-> rng0]
  ELSE Dispatched(
         run_receiver_branches(
           hpke_dispatch(to_match, DispatchAeads, DispatchKdfs, DispatchKems),
           1, mode, keypair, encapped_key, info,
           [some |-> FALSE, res |-> <<>>, log |-> l5, rng |-> rng0]),
         kem_alg)))

\* do_gen_keypair!: one draw of the csprng
\* the same with the public key tagged for the first arm of agile_gen_keypair
do_gen_keypair_FirstArmTag(Kex, kex_alg, rng0) ==
  LET kp == gen_keypair(Kex, rng0 + 1)
  IN [res |-> Ok(AgileKeypair(AgilePrivateKey(kex_alg, PrivateKey_marshal(kp[1])),
                              AgilePublicKey("X25519", PublicKey_marshal(kp[2])))),
      rng |-> rng0 + 1]

do_gen_keypair(Kex, kex_alg, rng0) ==
  LET kp == gen_keypair(Kex, rng0 + 1)
  IN [res |-> Ok(AgileKeypair(AgilePrivateKey(kex_alg, PrivateKey_marshal(kp[1])),
                              AgilePublicKey(kex_alg, PublicKey_marshal(kp[2])))),
      rng |-> rng0 + 1]

agile_gen_keypair(kex_alg, rng0) ==
  CASE kex_alg = "X25519" -> do_gen_keypair("X25519", kex_alg, rng0)
    [] kex_alg = "DhP256" -> do_gen_keypair("DhP256", kex_alg, rng0)
    [] OTHER -> [res |-> Panic("not implemented"), rng |-> rng0]

(***************************************************************************)
(* The inputs of the calls.                                                *)
(***************************************************************************)
INFO == "we're gonna agile him in his clavicle"
PSK_ID == "preshared key attempt #5, take 2. action"
Msgs == {"paper boy paper boy", "extra extra"}
Aads == {"all about that paper, boy", "read all about it"}

KexIndex(a) == CHOOSE i \in 1..Len(KexAlgSeq) : KexAlgSeq[i] = a

\* a and the NumOtherKex members that follow it in the enum, cyclically
TagsNear(a) ==
  {KexAlgSeq[((KexIndex(a) - 1 + d) % Len(KexAlgSeq)) + 1] : d \in 0..NumOtherKex}

\* Ids and lengths the pure routines are called with
Ids == (0..MaxId) \cup {255, 256, 65535}
OutLens == (0..MaxOut) \cup {255, 256, 258, 255 * 32, 255 * 32 + 1, 255 * 48, 255 * 48 + 1,
                            255 * 64, 255 * 64 + 1, 65535, 65536, 65537, 65536 + 255}
Labels == {<<>>, <<107>>}
InfoBytes == {<<>>, <<105>>, <<105, 110>>}
PRK == "prk"
Salts == {<<>>, <<1>>, <<0, 0>>}
Ikms == {<<>>, <<7>>, <<7, 8>>}

\* Tagged values a caller builds over the bytes of generated keys
PkAs(kp, tag) == AgilePublicKey(tag, kp[2].pubkey_bytes)
SkAs(kp, tag) == AgilePrivateKey(tag, kp[1].privkey_bytes)
KpAs(kp, sk_tag, pk_tag) == AgileKeypair(SkAs(kp, sk_tag), PkAs(kp, pk_tag))
EkAs(kp, tag) == AgileEncappedKey(tag, kp[2].pubkey_bytes)
BundleAs(kex_tag, kdf_tag) ==
  AgilePskBundle(kex_tag, kdf_tag,
                 Bytes(KdfAlg_get_digest_len(kdf_tag), <<"psk", "-", 0>>), PSK_ID)

Bundles(tags) == {BundleAs(bk, bkdf) : bk \in tags, bkdf \in KdfAlg}

SModeTys(tags) ==
  {ModeBase}
    \cup {ModePsk(b) : b \in Bundles(tags)}
    \cup {ModeAuth(KpAs(sender_kp, skt, pkt)) : skt \in tags, pkt \in tags}
    \cup {ModeAuthPsk(KpAs(sender_kp, skt, pkt), b) :
            skt \in tags, pkt \in tags, b \in Bundles(tags)}

RModeTys(tags) ==
  {ModeBase}
    \cup {ModePsk(b) : b \in Bundles(tags)}
    \cup {ModeAuth(PkAs(sender_kp, pkt)) : pkt \in tags}
    \cup {ModeAuthPsk(PkAs(sender_kp, pkt), b) : pkt \in tags, b \in Bundles(tags)}

SModes(tags) ==
  {AgileOpMode(mk, mkdf, ty) : mk \in tags, mkdf \in KdfAlg, ty \in SModeTys(tags)}

RModes(tags) ==
  {AgileOpMode(mk, mkdf, ty) : mk \in tags, mkdf \in KdfAlg, ty \in RModeTys(tags)}

\* The receiver's mode that agrees with a sender's mode (main: the sender's
\* keypair against its public key, the same PSK bundle)
AgreeingModeR(m) ==
  LET ty == m.op_mode_ty IN
  AgileOpMode(m.kex_alg, m.kdf_alg,
    CASE ty.ty = "Base" -> ModeBase
      [] ty.ty = "Psk" -> ModePsk(ty.bundle)
      [] ty.ty = "Auth" -> ModeAuth(ty.key[2])
      [] ty.ty = "AuthPsk" -> ModeAuthPsk(ty.key[2], ty.bundle))

\* a lent value coming back tagged for the algorithm of the first KEM of the
\* dispatch list
SharedBorrow_Retagged(v) == [v EXCEPT !.kex_alg = "X25519"]

\* A tagged value lent as &T (the receivers &self of try_lift, the arguments
\* of agile_setup_sender and agile_setup_receiver; the modes' try_lift takes a
\* clone): the caller's value when the call returns
SharedBorrow(v) == v

\* a keypair lent as &AgileKeypair
SharedBorrowKeypair(kp) == AgileKeypair(SharedBorrow(kp[1]), SharedBorrow(kp[2]))

NoCtx == [none |-> TRUE]
NoCall == [fn |-> "none"]
NoMsg == [some |-> FALSE]

(***************************************************************************)
(* The state machine: main's sequence of calls, and single calls of the    *)
(* pure routines.                                                          *)
(***************************************************************************)
Init ==
  /\ phase = "idle"
  /\ call = NoCall
  /\ rng = 0
  /\ sender_kp = <<>>
  /\ recip_kp = <<>>
  /\ sent = NoCall
  /\ sctx = NoCtx
  /\ rctx = NoCtx
  /\ sealed = NoMsg

\* agile_gen_keypair(kex_alg, &mut csprng): the sender's keypair, then the
\* recipient's of the same algorithm
AgileGenKeypair ==
  /\ phase \in {"idle", "gen1"}
  /\ \E kex_alg \in KexAlg :
       /\ phase = "gen1" => kex_alg = sender_kp[1].kex_alg
       /\ LET r == agile_gen_keypair(kex_alg, rng) IN
          /\ call' = [fn |-> "agile_gen_keypair", kex_alg |-> kex_alg, res |-> r.res]
          /\ rng' = r.rng
          /\ phase' = IF ~IsOk(r.res) THEN "done"
                      ELSE IF phase = "idle" THEN "gen1" ELSE "ready"
          /\ sender_kp' = IF IsOk(r.res) /\ phase = "idle" THEN r.res.v ELSE sender_kp
          /\ recip_kp' = IF IsOk(r.res) /\ phase = "gen1" THEN r.res.v ELSE recip_kp
  /\ UNCHANGED <<sent, sctx, rctx, sealed>>

\* One call of agile_setup_sender with the given arguments; main goes on with
\* the result when `main` holds and the call succeeded
SenderCall(main, aead_alg, kem_alg, mode, pk_recip) ==
  LET r == agile_setup_sender(aead_alg, kem_alg, mode, pk_recip, INFO, rng)
      c == [fn |-> "agile_setup_sender", aead_alg |-> aead_alg,
            kem_alg |-> kem_alg, mode |-> mode, pk_recip |-> pk_recip,
            info |-> INFO, rng0 |-> rng, res |-> r.res, log |-> r.log,
            after |-> [mode |-> SharedBorrow(mode),
                       pk_recip |-> SharedBorrow(pk_recip)]]
  IN /\ call' = c
     /\ rng' = r.rng
     /\ IF IsOk(r.res) /\ main
          THEN /\ sent' = c
               /\ sctx' = r.res.v[2]
               /\ phase' = "sent"
          ELSE /\ phase' = "done"
               /\ UNCHANGED <<sent, sctx>>

AgileSetupSender ==
  /\ phase = "ready"
  /\ \E aead_alg \in AeadAlg, kem_alg \in KemAlg :
       \E mode \in SModes(TagsNear(KemAlg_kex_alg(kem_alg))),
          tag \in TagsNear(KemAlg_kex_alg(kem_alg)) :
         SenderCall(TRUE, aead_alg, kem_alg, mode, PkAs(recip_kp, tag))
  /\ UNCHANGED <<sender_kp, recip_kp, rctx, sealed>>

\* One call of agile_setup_receiver with the given arguments
ReceiverCall(agreeing, aead_alg, kem_alg, mode, keypair, encapped_key, info) ==
  LET r == agile_setup_receiver(aead_alg, kem_alg, mode, keypair, encapped_key, info, rng)
  IN /\ call' = [fn |-> "agile_setup_receiver", aead_alg |-> aead_alg,
                 kem_alg |-> kem_alg, mode |-> mode, recip_keypair |-> keypair,
                 encapped_key |-> encapped_key, info |-> info, rng0 |-> rng,
                 agreeing |-> agreeing, res |-> r.res, log |-> r.log,
                 after |-> [mode |-> SharedBorrow(mode),
                            recip_keypair |-> SharedBorrowKeypair(keypair),
                            encapped_key |-> SharedBorrow(encapped_key)]]
     /\ rng' = r.rng
     /\ IF IsOk(r.res) /\ agreeing
          THEN rctx' = r.res.v /\ phase' = "up"
          ELSE rctx' = rctx /\ phase' = "done"

\* Before any sender ran: any tags, an encapsulated key built by the caller.
\* After the sender succeeded: the agreeing mode, the recipient's keypair under
\* the tag of pk_recip, and the encapsulated key the sender returned.
AgileSetupReceiver ==
  /\ phase \in {"ready", "sent"}
  /\ IF phase = "ready"
       THEN \E aead_alg \in AeadAlg, kem_alg \in KemAlg :
              \E mode \in RModes(TagsNear(KemAlg_kex_alg(kem_alg))),
                 skt \in TagsNear(KemAlg_kex_alg(kem_alg)),
                 pkt \in TagsNear(KemAlg_kex_alg(kem_alg)),
                 ekt \in TagsNear(KemAlg_kex_alg(kem_alg)) :
                ReceiverCall(FALSE, aead_alg, kem_alg, mode, KpAs(recip_kp, skt, pkt),
                             EkAs(sender_kp, ekt), INFO)
       ELSE ReceiverCall(TRUE, sent.aead_alg, sent.kem_alg, AgreeingModeR(sent.mode),
                         KpAs(recip_kp, sent.pk_recip.kex_alg, sent.pk_recip.kex_alg),
                         sent.res.v[1], sent.info)
  /\ UNCHANGED <<sender_kp, recip_kp, sent, sctx, sealed>>

\* After the sender succeeded: agile_setup_receiver given the encapsulated key
\* the sender returned and the sender's aead_alg and kem_alg, with any mode and
\* any tag on the recipient's keypair
AgileSetupReceiverReturnedKey ==
  /\ phase = "sent"
  /\ \E mode \in RModes(TagsNear(KemAlg_kex_alg(sent.kem_alg))),
        tag \in TagsNear(KemAlg_kex_alg(sent.kem_alg)) :
       ReceiverCall(FALSE, sent.aead_alg, sent.kem_alg, mode, KpAs(recip_kp, tag, tag),
                    sent.res.v[1], sent.info)
  /\ UNCHANGED <<sender_kp, recip_kp, sent, sctx, sealed>>

\* A buffer cut short, or of the right length and holding no key
Damages == {"short", "junk"}

Damage(bytes, d) ==
  IF d = "short" THEN Bytes(bytes.len - 1, bytes.body)
  ELSE Bytes(bytes.len, <<"junk", "-", 0>>)

\* The KEM of the dispatch list over a key-exchange algorithm
KemOver(kex_alg) == CHOOSE kem_alg \in {"X25519HkdfSha256", "DhP256HkdfSha256"} :
                      KemAlg_kex_alg(kem_alg) = kex_alg

\* agile_setup_sender and agile_setup_receiver with agreeing tags, the KEM of
\* the generated keys and an AuthPsk mode, one of the buffers being damaged
AgileSetupMalformed ==
  /\ phase = "ready"
  /\ \E aead_alg \in AeadAlg, kdf_alg \in KdfAlg, d \in Damages :
       LET k == recip_kp[1].kex_alg
           kem_alg == KemOver(k)
           bundle == BundleAs(k, kdf_alg)
           bad_pk(kp) == AgilePublicKey(k, Damage(kp[2].pubkey_bytes, d))
           bad_sk(kp) == AgilePrivateKey(k, Damage(kp[1].privkey_bytes, d))
           bad_ek(kp) == AgileEncappedKey(k, Damage(kp[2].pubkey_bytes, d))
           mode_s(kp) == AgileOpMode(k, kdf_alg, ModeAuthPsk(kp, bundle))
           mode_r(pk) == AgileOpMode(k, kdf_alg, ModeAuthPsk(pk, bundle))
       IN \/ /\ \/ SenderCall(FALSE, aead_alg, kem_alg, mode_s(sender_kp), bad_pk(recip_kp))
                \/ SenderCall(FALSE, aead_alg, kem_alg,
                              mode_s(AgileKeypair(bad_sk(sender_kp), sender_kp[2])),
                              recip_kp[2])
                \/ SenderCall(FALSE, aead_alg, kem_alg,
                              mode_s(AgileKeypair(sender_kp[1], bad_pk(sender_kp))),
                              recip_kp[2])
             /\ UNCHANGED rctx
          \/ /\ \/ ReceiverCall(FALSE, aead_alg, kem_alg, mode_r(bad_pk(sender_kp)),
                                recip_kp, EkAs(sender_kp, k), INFO)
                \/ ReceiverCall(FALSE, aead_alg, kem_alg, mode_r(sender_kp[2]),
                                AgileKeypair(bad_sk(recip_kp), recip_kp[2]),
                                EkAs(sender_kp, k), INFO)
                \/ ReceiverCall(FALSE, aead_alg, kem_alg, mode_r(sender_kp[2]),
                                AgileKeypair(recip_kp[1], bad_pk(recip_kp)),
                                EkAs(sender_kp, k), INFO)
                \/ ReceiverCall(FALSE, aead_alg, kem_alg, mode_r(sender_kp[2]),
                                recip_kp, bad_ek(sender_kp), INFO)
             /\ UNCHANGED <<sent, sctx>>
  /\ UNCHANGED <<sender_kp, recip_kp, sealed>>

\* aead_ctx1.seal(&mut plaintext, aad)
Seal ==
  /\ phase = "up"
  /\ sctx.seq < MaxSeq
  /\ \E plaintext \in Msgs, aad \in Aads :
       LET r == AgileAeadCtx_seal(sctx, plaintext, aad) IN
       /\ call' = [fn |-> "seal", plaintext |-> plaintext, aad |-> aad, seq0 |-> sctx.seq,
                   ctx0 |-> sctx, fwd |-> r.fwd, res |-> r.res, buf |-> r.buf]
       /\ sctx' = r.ctx
       /\ sealed' = IF IsOk(r.res)
                      THEN [some |-> TRUE, msg |-> plaintext, ciphertext |-> r.buf,
                            aad |-> aad, tag |-> r.res.v]
                      ELSE sealed
  /\ UNCHANGED <<phase, rng, sender_kp, recip_kp, sent, rctx>>

\* The tag bytes a receiver may be handed: the tag, the tag cut short, a tag
\* for another sequence number
ForgedTag(t) == [key |-> t.key, seq |-> t.seq + 1, aad |-> t.aad, ct |-> t.ct]

TagChoices(tag) ==
  {tag, Bytes(tag.len - 1, tag.body), Bytes(tag.len, ForgedTag(tag.body))}

\* aead_ctx2.open(&mut ciphertext, aad, &tag)
Open ==
  /\ phase = "up"
  /\ sealed.some
  /\ rctx.seq < MaxSeq
  /\ \E aad \in Aads, tag_bytes \in TagChoices(sealed.tag) :
       LET r == AgileAeadCtx_open(rctx, sealed.ciphertext, aad, tag_bytes) IN
       /\ call' = [fn |-> "open", ciphertext |-> sealed.ciphertext, aad |-> aad,
                   tag_bytes |-> tag_bytes, seq0 |-> rctx.seq, msg |-> sealed.msg,
                   sealed_aad |-> sealed.aad, sealed_tag |-> sealed.tag,
                   ctx0 |-> rctx, fwd |-> r.fwd, res |-> r.res, buf |-> r.buf]
       /\ rctx' = r.ctx
  /\ UNCHANGED <<phase, rng, sender_kp, recip_kp, sent, sctx, sealed>>

\* A call that leaves main's state alone and ends the run
PureCall(c) ==
  /\ call' = c
  /\ phase' = "done"
  /\ UNCHANGED <<rng, sender_kp, recip_kp, sent, sctx, rctx, sealed>>

TryFromU16 ==
  /\ phase = "idle"
  /\ \E fam \in Families, id \in Ids :
       PureCall([fn |-> "try_from_u16", fam |-> fam, id |-> id,
                 res |-> try_from_u16(fam, id)])

\* to_u16 of a member, and the lookup of the id it gives
ToU16 ==
  /\ phase = "idle"
  /\ \E fam \in Families :
       \E alg \in Members(fam) :
         PureCall([fn |-> "to_u16", fam |-> fam, alg |-> alg, id |-> to_u16(fam, alg),
                   back |-> try_from_u16(fam, to_u16(fam, alg))])

LabeledExpand ==
  /\ phase = "idle"
  /\ \E kdf \in KdfAlg, label \in Labels, info \in InfoBytes, L \in OutLens :
       LET r == labeled_expand_trace(kdf, PRK, label, info, L) IN
       PureCall([fn |-> "labeled_expand", kdf |-> kdf, label |-> label, info |-> info,
                 len |-> L, res |-> r.res, calls |-> r.calls])

LabeledExtract ==
  /\ phase = "idle"
  /\ \E kdf \in KdfAlg, salt \in Salts, label \in Labels, ikm \in Ikms :
       LET r == labeled_extract_trace(kdf, salt, label, ikm) IN
       PureCall([fn |-> "labeled_extract", kdf |-> kdf, salt |-> salt, label |-> label,
                 ikm |-> ikm, res |-> r.res, calls |-> r.calls])

ExtractAndExpand ==
  /\ phase = "idle"
  /\ \E kdf \in KdfAlg, ikm \in Ikms, info \in InfoBytes, L \in OutLens :
       LET r == extract_and_expand_trace(kdf, ikm, info, L) IN
       PureCall([fn |-> "extract_and_expand", kdf |-> kdf, ikm |-> ikm, info |-> info,
                 len |-> L, res |-> r.res, calls |-> r.calls])

\* value.try_lift::<Kex>(), called twice on the same value; `after` is the
\* caller's value after the first call
LiftTwice(kind, Kex, value, first, after, second) ==
  PureCall([fn |-> "try_lift", kind |-> kind, Kex |-> Kex, value |-> value,
            res |-> first, after |-> after, again |-> second])

TryLift ==
  /\ phase = "ready"
  /\ \E Kex \in KexTypes, skt \in KexAlg, pkt \in KexAlg, kp \in {sender_kp, recip_kp} :
       \/ LiftTwice("AgilePublicKey", Kex, PkAs(kp, pkt),
                    AgilePublicKey_try_lift(Kex, PkAs(kp, pkt)),
                    SharedBorrow(PkAs(kp, pkt)),
                    AgilePublicKey_try_lift(Kex, SharedBorrow(PkAs(kp, pkt))))
       \/ LiftTwice("AgilePrivateKey", Kex, SkAs(kp, skt),
                    AgilePrivateKey_try_lift(Kex, SkAs(kp, skt)),
                    SharedBorrow(SkAs(kp, skt)),
                    AgilePrivateKey_try_lift(Kex, SharedBorrow(SkAs(kp, skt))))
       \/ LiftTwice("AgileEncappedKey", Kex, EkAs(kp, pkt),
                    AgileEncappedKey_try_lift(Kex, EkAs(kp, pkt)),
                    SharedBorrow(EkAs(kp, pkt)),
                    AgileEncappedKey_try_lift(Kex, SharedBorrow(EkAs(kp, pkt))))
       \/ LiftTwice("AgileKeypair", Kex, KpAs(kp, skt, pkt),
                    AgileKeypair_try_lift(Kex, KpAs(kp, skt, pkt), "keypair").res,
                    SharedBorrowKeypair(KpAs(kp, skt, pkt)),
                    AgileKeypair_try_lift(Kex, SharedBorrowKeypair(KpAs(kp, skt, pkt)),
                                          "keypair").res)

KeypairValidate ==
  /\ phase = "ready"
  /\ \E skt \in KexAlg, pkt \in KexAlg, kp \in {sender_kp, recip_kp} :
       PureCall([fn |-> "AgileKeypair::validate", keypair |-> KpAs(kp, skt, pkt),
                 res |-> AgileKeypair_validate(KpAs(kp, skt, pkt))])

ValidateModeS ==
  /\ phase = "ready"
  /\ \E k \in KexAlg :
       \E mode \in SModes(TagsNear(k)) :
         PureCall([fn |-> "AgileOpModeS::validate", mode |-> mode,
                   res |-> AgileOpModeS_validate(mode)])

ValidateModeR ==
  /\ phase = "ready"
  /\ \E k \in KexAlg :
       \E mode \in RModes(TagsNear(k)) :
         PureCall([fn |-> "AgileOpModeR::validate", mode |-> mode,
                   res |-> AgileOpModeR_validate(mode)])

Next ==
  \/ AgileGenKeypair
  \/ AgileSetupSender
  \/ AgileSetupReceiver
  \/ AgileSetupReceiverReturnedKey
  \/ AgileSetupMalformed
  \/ Seal
  \/ Open
  \/ TryFromU16
  \/ ToU16
  \/ LabeledExpand
  \/ LabeledExtract
  \/ ExtractAndExpand
  \/ TryLift
  \/ KeypairValidate
  \/ ValidateModeS
  \/ ValidateModeR

Spec == Init /\ [][Next]_vars

(***************************************************************************)
(* Properties.                                                             *)
(***************************************************************************)
\* The ids each family's lookup accepts
WireIds(fam) ==
  CASE fam = "AeadAlg" -> {1, 2, 3}
    [] fam = "KdfAlg" -> {1, 2, 3}
    [] fam = "KemAlg" -> {16, 17, 18, 32, 33}

\* C8: AgileKeypair::validate returns AlgMismatch((private tag, "AgileKeypair::privkey"),
\* (public tag, "AgileKeypair::pubkey")) exactly when the two tags differ and
\* Ok otherwise, whatever the key bytes are.
C8_KeypairValidate ==
  call.fn = "AgileKeypair::validate" =>
    LET sk == call.keypair[1]
        pk == call.keypair[2]
    IN IF sk.kex_alg # pk.kex_alg
         THEN call.res = Err(AlgMismatch(<<KexAlg_name(sk.kex_alg), "AgileKeypair::privkey">>,
                                         <<KexAlg_name(pk.kex_alg), "AgileKeypair::pubkey">>))
         ELSE call.res = Ok(<<>>)

\* a P-256 keypair's bytes tagged X448 and DhP384: the tags alone decide
C8_Witness ==
  /\ call.fn = "AgileKeypair::validate"
  /\ call.keypair[1].kex_alg = "X448"
  /\ call.keypair[2].kex_alg = "DhP384"
  /\ call.keypair[2].pubkey_bytes.len = 65
  /\ IsAlgMismatch(call.res)

\* C9: for each of AeadAlg, KdfAlg and KemAlg, try_from_u16(a.to_u16()) is Ok(a)
\* for every member a, and try_from_u16(id) is Ok(a) with a.to_u16() = id for
\* the ids of the hard-coded set and Err(UnknownAlgIdent(family, id)) for every
\* other id.
C9_RegistryRoundTrip ==
  /\ call.fn = "to_u16" => call.back = Ok(call.alg)
  /\ call.fn = "try_from_u16" =>
       IF call.id \in WireIds(call.fam)
         THEN /\ IsOk(call.res)
              /\ call.res.v \in Members(call.fam)
              /\ to_u16(call.fam, call.res.v) = call.id
         ELSE call.res = Err(UnknownAlgIdent(call.fam, call.id))

C9_Witness ==
  /\ call.fn = "try_from_u16"
  /\ call.fam = "AeadAlg"
  /\ call.id = 255
  /\ call.res = Err(UnknownAlgIdent("AeadAlg", 255))

\* C10: labeled_expand with an output length above 65535 returns an error and
\* does not panic; with length 65535 it succeeds when the digest's expansion
\* limit allows that length.
C10_LabeledExpandLength ==
  call.fn = "labeled_expand" =>
    /\ ~IsPanic(call.res)
    /\ call.len > 65535 => IsErr(call.res)
    /\ (call.len = 65535 /\ call.len <= 255 * KdfAlg_get_digest_len(call.kdf)) =>
         IsOk(call.res)

(***************************************************************************)
(* The tag rules, stated over the arguments of a call.                     *)
(***************************************************************************)
\* Every tag in the payload of a sender's / receiver's mode equals the mode's
STagsAgree(m) ==
  LET ty == m.op_mode_ty IN
  /\ HasKey(ty) => ty.key[1].kex_alg = m.kex_alg /\ ty.key[2].kex_alg = m.kex_alg
  /\ HasBundle(ty) => ty.bundle.kex_alg = m.kex_alg /\ ty.bundle.kdf_alg = m.kdf_alg

RTagsAgree(m) ==
  LET ty == m.op_mode_ty IN
  /\ HasKey(ty) => ty.key.kex_alg = m.kex_alg
  /\ HasBundle(ty) => ty.bundle.kex_alg = m.kex_alg /\ ty.bundle.kdf_alg = m.kdf_alg

\* One comparison: whether it fails, and the error it then gives
TagCheck(bad, alg1, loc1, alg2, loc2) ==
  [bad |-> bad, err |-> Err(AlgMismatch(<<alg1, loc1>>, <<alg2, loc2>>))]

FirstFailure(checks) ==
  IF \E i \in DOMAIN checks : checks[i].bad
    THEN checks[CHOOSE i \in DOMAIN checks :
                  checks[i].bad /\ \A j \in 1..(i - 1) : ~checks[j].bad].err
    ELSE Ok(<<>>)

BundleChecks(me, m) ==
  LET b == m.op_mode_ty.bundle IN
  <<TagCheck(b.kex_alg # m.kex_alg, KexAlg_name(m.kex_alg), me \o "::kex_alg",
             KexAlg_name(b.kex_alg), me \o "::op_mode_ty::AgilePskBundle::kex_alg"),
    TagCheck(b.kdf_alg # m.kdf_alg, KdfAlg_name(m.kdf_alg), me \o "::kdf_alg",
             KdfAlg_name(b.kdf_alg), me \o "::op_mode_ty::AgilePskBundle::kdf_alg")>>

\* The comparisons of a sender's mode: the keypair's own two tags, the bundle's
\* kex_alg, the bundle's kdf_alg, the private key
SModeChecks(m) ==
  LET ty == m.op_mode_ty IN
  (IF HasKey(ty)
     THEN <<TagCheck(ty.key[1].kex_alg # ty.key[2].kex_alg,
                     KexAlg_name(ty.key[1].kex_alg), "AgileKeypair::privkey",
                     KexAlg_name(ty.key[2].kex_alg), "AgileKeypair::pubkey")>>
     ELSE <<>>)
  \o (IF HasBundle(ty) THEN BundleChecks("AgileOpModeS", m) ELSE <<>>)
  \o (IF HasKey(ty)
        THEN <<TagCheck(ty.key[1].kex_alg # m.kex_alg,
                        KexAlg_name(m.kex_alg), "AgileOpModeS::kex_alg",
                        KexAlg_name(ty.key[1].kex_alg),
                        "AgileOpModeS::op_mode_ty::AgilePrivateKey::kex_alg")>>
        ELSE <<>>)

\* The comparisons of a receiver's mode: the bundle's kex_alg, the bundle's
\* kdf_alg, the public key
RModeChecks(m) ==
  LET ty == m.op_mode_ty IN
  (IF HasBundle(ty) THEN BundleChecks("AgileOpModeR", m) ELSE <<>>)
  \o (IF HasKey(ty)
        THEN <<TagCheck(ty.key.kex_alg # m.kex_alg,
                        KexAlg_name(m.kex_alg), "AgileOpModeR::kex_alg",
                        KexAlg_name(ty.key.kex_alg),
                        "AgileOpModeR::op_mode_ty::AgilePublicKey::kex_alg")>>
        ELSE <<>>)

IsSetup == call.fn \in {"agile_setup_sender", "agile_setup_receiver"}
IsModeValidate == call.fn \in {"AgileOpModeS::validate", "AgileOpModeR::validate"}

\* The locations an error about a mode's key material names as found
KeyLocations ==
  {"AgileOpModeR::op_mode_ty::AgilePublicKey::kex_alg",
   "AgileOpModeS::op_mode_ty::AgilePrivateKey::kex_alg",
   "AgileKeypair::pubkey"}

NumChecks(log) == Cardinality({i \in DOMAIN log : log[i].op = "check"})

\* every tag the arguments of the setup call carry agrees
SetupTagsAgree ==
  IF call.fn = "agile_setup_sender"
    THEN /\ STagsAgree(call.mode)
         /\ call.pk_recip.kex_alg = call.mode.kex_alg
         /\ KemAlg_kex_alg(call.kem_alg) = call.mode.kex_alg
    ELSE /\ call.recip_keypair[1].kex_alg = call.recip_keypair[2].kex_alg
         /\ RTagsAgree(call.mode)
         /\ call.recip_keypair[1].kex_alg = call.mode.kex_alg
         /\ KemAlg_kex_alg(call.kem_alg) = call.mode.kex_alg
         /\ call.encapped_key.kex_alg = call.recip_keypair[1].kex_alg

\* the comparisons agile_setup_sender / agile_setup_receiver make
SetupChecksTotal == IF call.fn = "agile_setup_sender" THEN 4 ELSE 5

\* C1: in agile_setup_sender and agile_setup_receiver every lift is of a value
\* whose kex_alg tag is the KexAlg of the dispatched KEM, kem_alg.kex_alg(),
\* to the concrete type of that same algorithm; a PSK bundle is lifted to the
\* Kdf its kdf_alg tag names, which is the dispatched mode.kdf_alg.
C1_LiftUnderOwnAlg ==
  IsSetup =>
    \A i \in DOMAIN call.log :
      call.log[i].op = "lift" =>
        /\ call.log[i].kex_tag = KemAlg_kex_alg(call.kem_alg)
        /\ call.log[i].Kex = call.log[i].kex_tag
        /\ call.log[i].what = "mode.bundle" =>
             /\ call.log[i].kdf_tag = call.mode.kdf_alg
             /\ call.log[i].Kdf = call.log[i].kdf_tag

\* a receiver's AuthPsk setup that lifted the mode's key and bundle, the
\* keypair and the encapsulated key, and succeeded
C1_Witness ==
  /\ call.fn = "agile_setup_receiver"
  /\ call.mode.op_mode_ty.ty = "AuthPsk"
  /\ call.kem_alg = "DhP256HkdfSha256"
  /\ IsOk(call.res)
  /\ Cardinality({i \in DOMAIN call.log : call.log[i].op = "lift"}) = 5

\* C2: agile_setup_sender and agile_setup_receiver never panic; when the tags
\* pass every validation and the triple has no dispatch entry they return an
\* error that is not AlgMismatch.
C2_NoPanic ==
  IsSetup =>
    /\ ~IsPanic(call.res)
    /\ (SetupTagsAgree /\ call.kem_alg \notin {"X25519HkdfSha256", "DhP256HkdfSha256"}) =>
         IsErr(call.res) /\ ~IsAlgMismatch(call.res)

\* C3: in agile_setup_sender and agile_setup_receiver every comparison comes
\* before every lift, setup routine and csprng draw, which happen only after
\* all the comparisons were made; when some tag disagrees the call returns
\* AlgMismatch having made no lift, no setup and no draw.
C3_ValidateBeforeLift ==
  IsSetup =>
    /\ \A i \in DOMAIN call.log :
         call.log[i].op # "check" =>
           /\ i > SetupChecksTotal
           /\ \A j \in 1..SetupChecksTotal : call.log[j].op = "check"
    /\ ~SetupTagsAgree =>
         /\ IsAlgMismatch(call.res)
         /\ \A i \in DOMAIN call.log : call.log[i].op = "check"
         /\ rng = call.rng0

\* a sender's call with a valid PSK mode and pk_recip of another algorithm
C3_Witness ==
  /\ call.fn = "agile_setup_sender"
  /\ call.mode.op_mode_ty.ty = "Psk"
  /\ STagsAgree(call.mode)
  /\ call.pk_recip.kex_alg # call.mode.kex_alg
  /\ IsAlgMismatch(call.res)
  /\ rng = call.rng0

\* C4: AgileOpModeS::validate and AgileOpModeR::validate return Ok exactly
\* when every tag in the payload equals the mode's declared tag, and
\* AlgMismatch otherwise.
C4_ValidateIffTagsAgree ==
  /\ call.fn = "AgileOpModeS::validate" =>
       IF STagsAgree(call.mode) THEN call.res = Ok(<<>>) ELSE IsAlgMismatch(call.res)
  /\ call.fn = "AgileOpModeR::validate" =>
       IF RTagsAgree(call.mode) THEN call.res = Ok(<<>>) ELSE IsAlgMismatch(call.res)

\* a receiver's AuthPsk mode in which only the public key disagrees
C4_Witness ==
  /\ call.fn = "AgileOpModeR::validate"
  /\ call.mode.op_mode_ty.ty = "AuthPsk"
  /\ call.mode.op_mode_ty.bundle.kex_alg = call.mode.kex_alg
  /\ call.mode.op_mode_ty.bundle.kdf_alg = call.mode.kdf_alg
  /\ call.mode.op_mode_ty.key.kex_alg # call.mode.kex_alg
  /\ IsAlgMismatch(call.res)

\* C5 as the specification states it: for an AuthPsk mode in which both the
\* key material and the PSK bundle disagree with the mode, the error returned
\* is the one for the key material.
C5_DeclaredOrder ==
  (/\ IsModeValidate
   /\ call.mode.op_mode_ty.ty = "AuthPsk"
   /\ IF call.fn = "AgileOpModeS::validate"
        THEN \/ call.mode.op_mode_ty.key[1].kex_alg # call.mode.kex_alg
             \/ call.mode.op_mode_ty.key[2].kex_alg # call.mode.kex_alg
        ELSE call.mode.op_mode_ty.key.kex_alg # call.mode.kex_alg
   /\ \/ call.mode.op_mode_ty.bundle.kex_alg # call.mode.kex_alg
      \/ call.mode.op_mode_ty.bundle.kdf_alg # call.mode.kdf_alg)
  => /\ IsAlgMismatch(call.res)
     /\ call.res.e.b[2] \in KeyLocations

\* C5: mode validation stops at the first failure of: the nested keypair's own
\* two tags (sender only), the bundle's kex_alg, the bundle's kdf_alg, the key
\* material's kex_alg; the comparisons against the mode give
\* ((declared alg, declared location), (found alg, found location)).
C5_FirstFailure ==
  /\ call.fn = "AgileOpModeS::validate" => call.res = FirstFailure(SModeChecks(call.mode))
  /\ call.fn = "AgileOpModeR::validate" => call.res = FirstFailure(RModeChecks(call.mode))

\* a sender's AuthPsk mode whose keypair is consistent, with both the private
\* key and the bundle's kdf_alg disagreeing: the error is the bundle's
C5_Witness ==
  /\ call.fn = "AgileOpModeS::validate"
  /\ call.mode.op_mode_ty.ty = "AuthPsk"
  /\ call.mode.op_mode_ty.key[1].kex_alg = call.mode.op_mode_ty.key[2].kex_alg
  /\ call.mode.op_mode_ty.key[1].kex_alg # call.mode.kex_alg
  /\ call.mode.op_mode_ty.bundle.kex_alg = call.mode.kex_alg
  /\ call.mode.op_mode_ty.bundle.kdf_alg # call.mode.kdf_alg
  /\ IsAlgMismatch(call.res)
  /\ call.res.e.b[2] = "AgileOpModeS::op_mode_ty::AgilePskBundle::kdf_alg"

\* C6: after agile_setup_sender succeeded, agile_setup_receiver with the
\* agreeing mode, the recipient's keypair, the same info and the returned
\* encapsulated key succeeds, and opening what the sender sealed, in the
\* order it was sealed, with the same aad and the returned tag gives back
\* the plaintext.
C6_RoundTrip ==
  /\ (call.fn = "agile_setup_receiver" /\ call.agreeing) => IsOk(call.res)
  /\ (/\ call.fn = "open"
      /\ call.aad = call.sealed_aad
      /\ call.tag_bytes = call.sealed_tag
      /\ call.seq0 = call.sealed_tag.body.seq)
     => IsOk(call.res) /\ call.buf = call.msg

\* the second message of an AuthPsk session over P-256 opened
C6_Witness ==
  /\ call.fn = "open"
  /\ sent.mode.op_mode_ty.ty = "AuthPsk"
  /\ sent.kem_alg = "DhP256HkdfSha256"
  /\ call.aad = call.sealed_aad
  /\ call.tag_bytes = call.sealed_tag
  /\ call.seq0 = 1
  /\ IsOk(call.res)
  /\ call.buf = call.msg

\* C7: agile_setup_sender and agile_setup_receiver return the error of the
\* first failing comparison, in the order of the code, having made no later
\* comparison; when all pass the result is no AlgMismatch.
C7_FirstFailingCheck ==
  /\ call.fn = "agile_setup_sender" =>
       LET m == call.mode
           pk == call.pk_recip
           kem == KemAlg_kex_alg(call.kem_alg)
       IN IF ~STagsAgree(m)
            THEN call.res = FirstFailure(SModeChecks(m)) /\ NumChecks(call.log) = 1
          ELSE IF pk.kex_alg # m.kex_alg
            THEN /\ call.res = Err(AlgMismatch(<<KexAlg_name(m.kex_alg), "mode::kex_alg">>,
                                               <<KexAlg_name(pk.kex_alg), "pk_recip::kex_alg">>))
                 /\ NumChecks(call.log) = 2
          ELSE IF kem # m.kex_alg
            THEN /\ call.res = Err(AlgMismatch(<<KexAlg_name(kem), "kem_alg::kex_alg">>,
                                               <<KexAlg_name(m.kex_alg), "mode::kex_alg">>))
                 /\ NumChecks(call.log) = 3
          ELSE ~IsAlgMismatch(call.res) /\ NumChecks(call.log) = 4
  /\ call.fn = "agile_setup_receiver" =>
       LET m == call.mode
           kp == call.recip_keypair
           ek == call.encapped_key
           kem == KemAlg_kex_alg(call.kem_alg)
       IN IF kp[1].kex_alg # kp[2].kex_alg
            THEN /\ call.res = Err(AlgMismatch(<<KexAlg_name(kp[1].kex_alg), "AgileKeypair::privkey">>,
                                               <<KexAlg_name(kp[2].kex_alg), "AgileKeypair::pubkey">>))
                 /\ NumChecks(call.log) = 1
          ELSE IF ~RTagsAgree(m)
            THEN call.res = FirstFailure(RModeChecks(m)) /\ NumChecks(call.log) = 2
          ELSE IF kp[1].kex_alg # m.kex_alg
            THEN /\ call.res = Err(AlgMismatch(<<KexAlg_name(m.kex_alg), "mode::kex_alg">>,
                                               <<KexAlg_name(kp[1].kex_alg), "recip_keypair::kex_alg">>))
                 /\ NumChecks(call.log) = 3
          ELSE IF kem # m.kex_alg
            THEN /\ call.res = Err(AlgMismatch(<<KexAlg_name(kem), "kem_alg::kex_alg">>,
                                               <<KexAlg_name(m.kex_alg), "mode::kex_alg">>))
                 /\ NumChecks(call.log) = 4
          ELSE IF ek.kex_alg # kp[1].kex_alg
            THEN /\ call.res = Err(AlgMismatch(<<KexAlg_name(kp[1].kex_alg), "recip_keypair::kex_alg">>,
                                               <<KexAlg_name(ek.kex_alg), "encapped_key::kex_alg">>))
                 /\ NumChecks(call.log) = 5
          ELSE ~IsAlgMismatch(call.res) /\ NumChecks(call.log) = 5

\* a receiver's call in which only the encapsulated key's tag disagrees
C7_Witness ==
  /\ call.fn = "agile_setup_receiver"
  /\ call.recip_keypair[1].kex_alg = call.recip_keypair[2].kex_alg
  /\ RTagsAgree(call.mode)
  /\ call.recip_keypair[1].kex_alg = call.mode.kex_alg
  /\ KemAlg_kex_alg(call.kem_alg) = call.mode.kex_alg
  /\ call.encapped_key.kex_alg # call.recip_keypair[1].kex_alg
  /\ IsAlgMismatch(call.res)
  /\ call.res.e.b[2] = "encapped_key::kex_alg"

\* C11: for every output length up to 65535, labeled_expand makes one call of
\* expand, asking for exactly that many bytes with the info string
\* [L div 256, L mod 256], "RFCXXXX ", label, info.
C11_LabeledInfoLayout ==
  (call.fn = "labeled_expand" /\ call.len <= 65535) =>
    /\ Len(call.calls) = 1
    /\ call.calls[1].op = "expand"
    /\ call.calls[1].len = call.len
    /\ call.calls[1].info =
         <<call.len \div 256, call.len % 256>>
           \o <<82, 70, 67, 88, 88, 88, 88, 32>> \o call.label \o call.info

\* a length whose two bytes differ, with a label and an info
C11_Witness ==
  /\ call.fn = "labeled_expand"
  /\ call.len = 258
  /\ call.label = <<107>>
  /\ call.info = <<105, 110>>
  /\ IsOk(call.res)
  /\ call.calls[1].info = <<1, 2, 82, 70, 67, 88, 88, 88, 88, 32, 107, 105, 110>>

C13_EncappedKeyRetagged ==
  /\ (call.fn = "agile_setup_sender" /\ IsOk(call.res)) =>
       /\ call.res.v[1].kex_alg = call.mode.kex_alg
       /\ call.res.v[1].kex_alg = call.pk_recip.kex_alg
       /\ call.res.v[1].kex_alg = KemAlg_kex_alg(call.kem_alg)
  /\ (/\ call.fn = "agile_setup_receiver"
      /\ sent.fn = "agile_setup_sender"
      /\ call.encapped_key = sent.res.v[1]
      /\ call.kem_alg = sent.kem_alg
      /\ call.recip_keypair[1].kex_alg = sent.res.v[1].kex_alg
      /\ call.recip_keypair[2].kex_alg = sent.res.v[1].kex_alg
      /\ call.mode.kex_alg = sent.res.v[1].kex_alg
      /\ RTagsAgree(call.mode))
     => ~IsAlgMismatch(call.res)

\* the returned key given to a receiver whose valid mode is not the one that
\* agrees with the sender's
C13_Witness ==
  /\ call.fn = "agile_setup_receiver"
  /\ sent.fn = "agile_setup_sender"
  /\ sent.kem_alg = "DhP256HkdfSha256"
  /\ call.encapped_key = sent.res.v[1]
  /\ call.encapped_key.kex_alg = "DhP256"
  /\ call.mode # AgreeingModeR(sent.mode)
  /\ call.recip_keypair[1].kex_alg = "DhP256"
  /\ call.recip_keypair[2].kex_alg = "DhP256"
  /\ call.mode.kex_alg = "DhP256"
  /\ RTagsAgree(call.mode)
  /\ IsOk(call.res)

Callbacks(log) == SelectSeq(log, LAMBDA e : e.op = "callback")

\* C15: hpke_dispatch expands to 18 branches; a setup call that passed its
\* validations calls the callback exactly once when kem_alg is
\* X25519HkdfSha256 or DhP256HkdfSha256, with the type parameters naming
\* aead_alg, mode.kdf_alg and kem_alg, and never for another kem_alg, for
\* which it calls no concrete setup routine either.
C15_OneBranch ==
  /\ Len(DispatchBranches(DispatchAeads, DispatchKdfs, DispatchKems)) = 18
  /\ (IsSetup /\ SetupTagsAgree) =>
       IF call.kem_alg \in {"X25519HkdfSha256", "DhP256HkdfSha256"}
         THEN /\ Len(Callbacks(call.log)) = 1
              /\ Callbacks(call.log)[1].A = call.aead_alg
              /\ Callbacks(call.log)[1].Kdf = call.mode.kdf_alg
              /\ Callbacks(call.log)[1].Kem = call.kem_alg
              /\ \A i \in DOMAIN call.log :
                   call.log[i].op \in {"setup_sender", "setup_receiver"} =>
                     /\ call.log[i].A = call.aead_alg
                     /\ call.log[i].Kdf = call.mode.kdf_alg
                     /\ call.log[i].Kem = call.kem_alg
         ELSE \A i \in DOMAIN call.log : call.log[i].op = "check"

\* the last of the 18 branches taken by a sender
C15_Witness ==
  /\ call.fn = "agile_setup_sender"
  /\ call.aead_alg = "AesGcm256"
  /\ call.mode.kdf_alg = "HkdfSha512"
  /\ call.kem_alg = "DhP256HkdfSha256"
  /\ IsOk(call.res)
  /\ Len(Callbacks(call.log)) = 1
  /\ Callbacks(call.log)[1].Kdf = "HkdfSha512"

\* The buffers a setup call lifts, each with the unmarshal the lift defers to
LiftedBuffers ==
  LET ty == call.mode.op_mode_ty IN
  IF call.fn = "agile_setup_sender"
    THEN (IF HasKey(ty)
            THEN <<[sk |-> TRUE, bytes |-> ty.key[1].privkey_bytes],
                   [sk |-> FALSE, bytes |-> ty.key[2].pubkey_bytes]>>
            ELSE <<>>)
         \o <<[sk |-> FALSE, bytes |-> call.pk_recip.pubkey_bytes]>>
    ELSE (IF HasKey(ty) THEN <<[sk |-> FALSE, bytes |-> ty.key.pubkey_bytes]>> ELSE <<>>)
         \o <<[sk |-> TRUE, bytes |-> call.recip_keypair[1].privkey_bytes],
              [sk |-> FALSE, bytes |-> call.recip_keypair[2].pubkey_bytes],
              [sk |-> FALSE, bytes |-> call.encapped_key.encapped_key_bytes]>>

\* what the backend of the call's KEM answers for a buffer
BackendUnmarshal(b) ==
  IF b.sk THEN PrivateKey_unmarshal(KemAlg_kex_alg(call.kem_alg), b.bytes)
  ELSE PublicKey_unmarshal(KemAlg_kex_alg(call.kem_alg), b.bytes)

\* C16: when the tags agree and the triple is dispatched but the backend
\* cannot unmarshal one of the buffers the call lifts, agile_setup_sender and
\* agile_setup_receiver return Err(HpkeError(e)) with e the backend's error,
\* having called no concrete setup routine and drawn nothing from the csprng.
C16_UnmarshalFailure ==
  (/\ IsSetup
   /\ SetupTagsAgree
   /\ call.kem_alg \in {"X25519HkdfSha256", "DhP256HkdfSha256"}
   /\ \E i \in DOMAIN LiftedBuffers : IsErr(BackendUnmarshal(LiftedBuffers[i])))
  => /\ IsErr(call.res)
     /\ call.res.e.k = "HpkeError"
     /\ \E i \in DOMAIN LiftedBuffers :
          /\ IsErr(BackendUnmarshal(LiftedBuffers[i]))
          /\ call.res.e.e = BackendUnmarshal(LiftedBuffers[i]).e
     /\ \A i \in DOMAIN call.log : call.log[i].op \notin {"setup_sender", "setup_receiver", "csprng"}
     /\ rng = call.rng0

\* a receiver whose keypair holds a private key one byte short, after the
\* mode's key was lifted
C16_Witness ==
  /\ call.fn = "agile_setup_receiver"
  /\ SetupTagsAgree
  /\ call.kem_alg = "X25519HkdfSha256"
  /\ call.recip_keypair[1].privkey_bytes.len = 31
  /\ call.res = Err(HpkeError("InvalidEncoding"))
  /\ Len(call.log) = 9

\* C17: the type-erased context calls the concrete seal or open at most once
\* per call, a successful call leaves the sequence number one higher and a
\* failed one leaves the context alone; tag bytes that do not unmarshal make
\* open fail with the concrete open never called, the context and the
\* ciphertext buffer as they were.
C17_ForwardOnce ==
  /\ call.fn = "seal" =>
       /\ Len(call.fwd) <= 1
       /\ IsOk(call.res) => Len(call.fwd) = 1 /\ sctx = [call.ctx0 EXCEPT !.seq = @ + 1]
       /\ ~IsOk(call.res) => sctx = call.ctx0
  /\ call.fn = "open" =>
       /\ Len(call.fwd) <= 1
       /\ IsOk(call.res) => Len(call.fwd) = 1 /\ rctx = [call.ctx0 EXCEPT !.seq = @ + 1]
       /\ ~IsOk(call.res) => rctx = call.ctx0
       /\ ~IsOk(AeadTag_unmarshal(call.tag_bytes)) =>
            /\ IsErr(call.res)
            /\ call.fwd = <<>>
            /\ rctx = call.ctx0
            /\ call.buf = call.ciphertext

\* the second open of a run handed the tag one byte short, after a first open
\* that succeeded
C17_Witness ==
  /\ call.fn = "open"
  /\ call.seq0 = 1
  /\ call.tag_bytes.len = AeadTag_size - 1
  /\ call.res = Err(HpkeError("InvalidEncoding"))
  /\ rctx.seq = 1

\* The algorithms agile_gen_keypair has an arm for
GenKexAlgs == {"X25519", "DhP256"}

\* kp is what agile_gen_keypair(k, ..) returned at some earlier draw of the
\* csprng
GeneratedFor(k, kp) ==
  \E r \in 0..rng :
    /\ IsOk(agile_gen_keypair(k, r).res)
    /\ kp = agile_gen_keypair(k, r).res.v

\* C18: for X25519 and DhP256 agile_gen_keypair returns a keypair whose two
\* tags are the requested kex_alg, on which AgileKeypair::validate is Ok; as
\* the recipient's key of a setup call whose valid mode declares that
\* algorithm and whose kem_alg is over it, every comparison of
\* agile_setup_sender / agile_setup_receiver is reached and none of those
\* that involve the keypair fails.
C18_GeneratedKeypairTags ==
  /\ (call.fn = "agile_gen_keypair" /\ call.kex_alg \in GenKexAlgs) =>
       /\ IsOk(call.res)
       /\ call.res.v[1].kex_alg = call.kex_alg
       /\ call.res.v[2].kex_alg = call.kex_alg
       /\ IsOk(AgileKeypair_validate(call.res.v))
  /\ \A k \in GenKexAlgs :
       /\ (/\ call.fn = "agile_setup_sender"
           /\ GeneratedFor(k, recip_kp)
           /\ call.pk_recip = recip_kp[2]
           /\ call.mode.kex_alg = k
           /\ STagsAgree(call.mode)
           /\ KemAlg_kex_alg(call.kem_alg) = k)
          => /\ NumChecks(call.log) = SetupChecksTotal
             /\ ~IsAlgMismatch(call.res)
       /\ (/\ call.fn = "agile_setup_receiver"
           /\ GeneratedFor(k, recip_kp)
           /\ call.recip_keypair = recip_kp
           /\ call.mode.kex_alg = k
           /\ RTagsAgree(call.mode)
           /\ KemAlg_kex_alg(call.kem_alg) = k)
          => /\ NumChecks(call.log) = SetupChecksTotal
             /\ call.encapped_key.kex_alg = k => ~IsAlgMismatch(call.res)

\* a DhP256 keypair as generated, given to a receiver that completes
C18_Witness ==
  /\ call.fn = "agile_setup_receiver"
  /\ GeneratedFor("DhP256", recip_kp)
  /\ call.recip_keypair = recip_kp
  /\ call.mode.kex_alg = "DhP256"
  /\ call.kem_alg = "DhP256HkdfSha256"
  /\ NumChecks(call.log) = 5
  /\ IsOk(call.res)

====
